---------------------------- MODULE Spec2Model ----------------------------
(***************************************************************************)
(* A model of the semantic chunker of doc-rag-sample                       *)
(* (src/semantic-chunker/chunker.py).                                      *)
(*                                                                         *)
(* A Python str is a sequence of Unicode code points (integers), so that   *)
(* split, strip, lower, the regular expressions and the formatting of      *)
(* chunk_id are computed character by character as the code computes them. *)
(***************************************************************************)
EXTENDS Integers, Sequences, FiniteSets, TLC

(***************************************************************************)
(* Characters.                                                             *)
(***************************************************************************)
NL == 10
SP == 32
HASH == 35
DOT == 46
BANG == 33
QMARK == 63
UNDERSCORE == 95
CHAR_c == 99
DIGIT_0 == 48

\* The value None of Python, for an optional str or an optional int.
None == -1000

\* str.isspace() for one character: what str.strip(), str.split() and the
\* regular expression \s take as whitespace.
IsSpace(c) == c \in {9, 10, 11, 12, 13, 28, 29, 30, 31, 32, 133, 160}

\* A character of a [.!?] class.
IsSentenceEnd(c) == c \in {DOT, BANG, QMARK}

\* str.lower() for one character: ASCII A-Z, Cyrillic A-YA and IO.
LowerChar(c) ==
    IF c >= 65 /\ c <= 90 THEN c + 32
    ELSE IF c >= 1040 /\ c <= 1071 THEN c + 32
    ELSE IF c = 1025 THEN 1105
    ELSE c

\* str.lower()
Lower(s) == [i \in 1..Len(s) |-> LowerChar(s[i])]

(***************************************************************************)
(* str helpers.                                                            *)
(***************************************************************************)
\* s[i:] with a 1-based first index
Drop(s, i) == SubSeq(s, i, Len(s))

RECURSIVE LStrip(_)
\* str.lstrip()
LStrip(s) ==
    IF s # <<>> /\ IsSpace(Head(s)) THEN LStrip(Tail(s)) ELSE s

RECURSIVE RStrip(_)
\* str.rstrip()
RStrip(s) ==
    IF s # <<>> /\ IsSpace(s[Len(s)]) THEN RStrip(SubSeq(s, 1, Len(s) - 1)) ELSE s

\* str.strip()
Strip(s) == RStrip(LStrip(s))

RECURSIVE SplitOn(_, _)
\* str.split(sep) for a one-character separator: always at least one piece.
SplitOn(s, sep) ==
    IF \E i \in 1..Len(s) : s[i] = sep
    THEN LET i == CHOOSE k \in 1..Len(s) :
                     s[k] = sep /\ \A j \in 1..(k - 1) : s[j] # sep
         IN  <<SubSeq(s, 1, i - 1)>> \o SplitOn(Drop(s, i + 1), sep)
    ELSE <<s>>

RECURSIVE Join(_, _)
\* sep.join(parts)
Join(parts, sep) ==
    IF parts = <<>> THEN <<>>
    ELSE IF Len(parts) = 1 THEN parts[1]
    ELSE parts[1] \o sep \o Join(Tail(parts), sep)

RECURSIVE Words(_)
\* str.split(): the maximal runs of non-whitespace characters.
Words(s) ==
    LET t == LStrip(s) IN
    IF t = <<>> THEN <<>>
    ELSE LET n == IF \E i \in 1..Len(t) : IsSpace(t[i])
                  THEN (CHOOSE k \in 1..Len(t) :
                            IsSpace(t[k]) /\ \A j \in 1..(k - 1) : ~IsSpace(t[j])) - 1
                  ELSE Len(t)
         IN  <<SubSeq(t, 1, n)>> \o Words(Drop(t, n + 1))

RECURSIVE Repeat(_, _)
\* c * n for a character c
Repeat(c, n) == IF n <= 0 THEN <<>> ELSE <<c>> \o Repeat(c, n - 1)

RECURSIVE StrOfNat(_)
\* str(n) for n >= 0: the decimal digits.
StrOfNat(n) ==
    IF n < 10 THEN <<DIGIT_0 + n>>
    ELSE StrOfNat(n \div 10) \o <<DIGIT_0 + (n % 10)>>

(***************************************************************************)
(* SemanticChunker.CHUNK_TYPE_PATTERNS.  A pattern is the sequence of the   *)
(* literal parts that its ".*" separate (one part for a literal pattern);  *)
(* no pattern holds another metacharacter.  The comments transliterate.    *)
(***************************************************************************)
\* CHUNK_TYPE_PATTERNS["passport"], chunker.py line 23
passport_patterns ==
    << <<<<1087, 1072, 1089, 1087, 1086, 1088, 1090>>>>,  \* line 24: pasport
       <<<<1089, 1077, 1088, 1080, 1103>>>>,  \* line 24: seriya
       <<<<1085, 1086, 1084, 1077, 1088, 32, 1087, 1072, 1089, 1087, 1086, 1088, 1090>>>>,  \* line 24: nomer pasport
       <<<<1074, 1099, 1076, 1072, 1085>>>>,  \* line 24: vydan
       <<<<1082, 1086, 1076, 32, 1087, 1086, 1076, 1088, 1072, 1079, 1076, 1077, 1083, 1077, 1085, 1080, 1103>>>>,  \* line 24: kod podrazdeleniya
       <<<<1084, 1077, 1089, 1090, 1086, 32, 1088, 1086, 1078, 1076, 1077, 1085, 1080, 1103>>>>,  \* line 25: mesto rozhdeniya
       <<<<1076, 1072, 1090, 1072, 32, 1088, 1086, 1078, 1076, 1077, 1085, 1080, 1103>>>>,  \* line 25: data rozhdeniya
       <<<<1075, 1088, 1072, 1078, 1076, 1072, 1085, 1080, 1085>>>>,  \* line 25: grazhdanin
       <<<<1091, 1076, 1086, 1089, 1090, 1086, 1074, 1077, 1088, 1103, 1102, 1097>>>>,  \* line 25: udostoveryayushch
       <<<<112, 97, 115, 115, 112, 111, 114, 116>>>>,  \* line 26: passport
       <<<<1060, 1048, 1054>>>>,  \* line 26: FIO
       <<<<1092, 1072, 1084, 1080, 1083, 1080, 1103>>, <<1080, 1084, 1103>>, <<1086, 1090, 1095, 1077, 1089, 1090, 1074, 1086>>>> >>  \* line 26: familiya.*imya.*otchestvo

\* CHUNK_TYPE_PATTERNS["ndfl"], chunker.py line 29
ndfl_patterns ==
    << <<<<1085, 1076, 1092, 1083>>>>,  \* line 30: ndfl
       <<<<50, 45, 1085, 1076, 1092, 1083>>>>,  \* line 30: 2-ndfl
       <<<<51, 45, 1085, 1076, 1092, 1083>>>>,  \* line 30: 3-ndfl
       <<<<1089, 1087, 1088, 1072, 1074, 1082, 1072, 32, 1086, 32, 1076, 1086, 1093, 1086, 1076, 1072, 1093>>>>,  \* line 30: spravka o dokhodakh
       <<<<1085, 1072, 1083, 1086, 1075, 1086, 1074, 1099, 1081, 32, 1072, 1075, 1077, 1085, 1090>>>>,  \* line 30: nalogovyj agent
       <<<<1085, 1072, 1083, 1086, 1075, 1086, 1086, 1073, 1083, 1072, 1075, 1072, 1077, 1084>>>>,  \* line 31: nalogooblagaem
       <<<<1074, 1099, 1095, 1077, 1090>>>>,  \* line 31: vychet
       <<<<1091, 1076, 1077, 1088, 1078, 1072, 1085>>>>,  \* line 31: uderzhan
       <<<<1080, 1089, 1095, 1080, 1089, 1083, 1077, 1085>>>>,  \* line 31: ischislen
       <<<<1085, 1072, 1083, 1086, 1075, 1086, 1074, 1072, 1103, 32, 1073, 1072, 1079, 1072>>>>,  \* line 31: nalogovaya baza
       <<<<1089, 1091, 1084, 1084, 1072, 32, 1076, 1086, 1093, 1086, 1076, 1072>>>>,  \* line 32: summa dokhoda
       <<<<1082, 1086, 1076, 32, 1076, 1086, 1093, 1086, 1076, 1072>>>> >>  \* line 32: kod dokhoda

\* CHUNK_TYPE_PATTERNS["questionnaire"], chunker.py line 35
questionnaire_patterns ==
    << <<<<1072, 1085, 1082, 1077, 1090>>>>,  \* line 36: anket
       <<<<1079, 1072, 1103, 1074, 1083, 1077, 1085, 1080>>>>,  \* line 36: zayavleni
       <<<<1087, 1077, 1088, 1089, 1086, 1085, 1072, 1083, 1100, 1085, 1099, 1077, 32, 1076, 1072, 1085, 1085, 1099, 1077>>>>,  \* line 36: personal'nye dannye
       <<<<1089, 1086, 1075, 1083, 1072, 1089, 1080, 1077, 32, 1085, 1072, 32, 1086, 1073, 1088, 1072, 1073, 1086, 1090, 1082, 1091>>>>,  \* line 36: soglasie na obrabotku
       <<<<1089, 1077, 1084, 1077, 1081, 1085, 1086, 1077, 32, 1087, 1086, 1083, 1086, 1078, 1077, 1085, 1080, 1077>>>>,  \* line 37: semejnoe polozhenie
       <<<<1086, 1073, 1088, 1072, 1079, 1086, 1074, 1072, 1085, 1080, 1077>>>>,  \* line 37: obrazovanie
       <<<<1084, 1077, 1089, 1090, 1086, 32, 1088, 1072, 1073, 1086, 1090, 1099>>>>,  \* line 37: mesto raboty
       <<<<1076, 1086, 1083, 1078, 1085, 1086, 1089, 1090, 1100>>>>,  \* line 37: dolzhnost'
       <<<<1089, 1090, 1072, 1078>>>>,  \* line 38: stazh
       <<<<1082, 1086, 1085, 1090, 1072, 1082, 1090, 1085, 1099, 1077, 32, 1076, 1072, 1085, 1085, 1099, 1077>>>>,  \* line 38: kontaktnye dannye
       <<<<1090, 1077, 1083, 1077, 1092, 1086, 1085>>>>,  \* line 38: telefon
       <<<<101, 109, 97, 105, 108>>>>,  \* line 38: email
       <<<<1072, 1076, 1088, 1077, 1089, 32, 1087, 1088, 1086, 1078, 1080, 1074, 1072, 1085, 1080, 1103>>>> >>  \* line 38: adres prozhivaniya

\* CHUNK_TYPE_PATTERNS["bank_statement"], chunker.py line 41
bank_statement_patterns ==
    << <<<<1074, 1099, 1087, 1080, 1089, 1082, 1072>>>>,  \* line 42: vypiska
       <<<<1073, 1072, 1085, 1082, 1086, 1074, 1089, 1082>>>>,  \* line 42: bankovsk
       <<<<1086, 1089, 1090, 1072, 1090, 1086, 1082>>>>,  \* line 42: ostatok
       <<<<1086, 1073, 1086, 1088, 1086, 1090>>>>,  \* line 42: oborot
       <<<<1076, 1077, 1073, 1077, 1090>>>>,  \* line 42: debet
       <<<<1082, 1088, 1077, 1076, 1080, 1090>>>>,  \* line 42: kredit
       <<<<1088, 1072, 1089, 1095, 1077, 1090, 1085, 1099, 1081, 32, 1089, 1095, 1077, 1090>>>>,  \* line 43: raschetnyj schet
       <<<<1082, 1086, 1088, 1088, 1077, 1089, 1087, 1086, 1085, 1076, 1077, 1085, 1090>>>>,  \* line 43: korrespondent
       <<<<1041, 1048, 1050>>>>,  \* line 43: BIK
       <<<<115, 119, 105, 102, 116>>>> >>  \* line 43: swift

\* CHUNK_TYPE_PATTERNS["credit"], chunker.py line 46
credit_patterns ==
    << <<<<1082, 1088, 1077, 1076, 1080, 1090>>>>,  \* line 47: kredit
       <<<<1079, 1072, 1081, 1084>>>>,  \* line 47: zajm
       <<<<1089, 1089, 1091, 1076, 1072>>>>,  \* line 47: ssuda
       <<<<1087, 1088, 1086, 1094, 1077, 1085, 1090, 1085, 1072, 1103, 32, 1089, 1090, 1072, 1074, 1082, 1072>>>>,  \* line 47: protsentnaya stavka
       <<<<1075, 1088, 1072, 1092, 1080, 1082, 32, 1087, 1083, 1072, 1090, 1077, 1078, 1077, 1081>>>>,  \* line 47: grafik platezhej
       <<<<1087, 1086, 1075, 1072, 1096, 1077, 1085, 1080, 1077>>>>,  \* line 48: pogashenie
       <<<<1079, 1072, 1076, 1086, 1083, 1078, 1077, 1085, 1085, 1086, 1089, 1090>>>>,  \* line 48: zadolzhennost
       <<<<1083, 1080, 1084, 1080, 1090>>>>,  \* line 48: limit
       <<<<1082, 1088, 1077, 1076, 1080, 1090, 1085, 1072, 1103, 32, 1080, 1089, 1090, 1086, 1088, 1080, 1103>>>> >>  \* line 48: kreditnaya istoriya

\* CHUNK_TYPE_PATTERNS["employment"], chunker.py line 51
employment_patterns ==
    << <<<<1090, 1088, 1091, 1076, 1086, 1074>>>>,  \* line 52: trudov
       <<<<1088, 1072, 1073, 1086, 1090, 1086, 1076, 1072, 1090, 1077, 1083, 1100>>>>,  \* line 52: rabotodatel'
       <<<<1079, 1072, 1088, 1072, 1073, 1086, 1090, 1085>>>>,  \* line 52: zarabotn
       <<<<1086, 1082, 1083, 1072, 1076>>>>,  \* line 52: oklad
       <<<<1087, 1088, 1077, 1084, 1080, 1103>>>>,  \* line 52: premiya
       <<<<1090, 1088, 1091, 1076, 1086, 1091, 1089, 1090, 1088, 1086>>>>,  \* line 53: trudoustro
       <<<<1091, 1074, 1086, 1083, 1100, 1085, 1077, 1085, 1080>>>>,  \* line 53: uvol'neni
       <<<<1087, 1088, 1080, 1082, 1072, 1079>>>>,  \* line 53: prikaz
       <<<<1090, 1072, 1073, 1077, 1083, 1100>>>> >>  \* line 53: tabel'

\* CHUNK_TYPE_PATTERNS["property"], chunker.py line 56
property_patterns ==
    << <<<<1085, 1077, 1076, 1074, 1080, 1078, 1080, 1084, 1086, 1089, 1090>>>>,  \* line 57: nedvizhimost
       <<<<1089, 1086, 1073, 1089, 1090, 1074, 1077, 1085, 1085, 1086, 1089, 1090>>>>,  \* line 57: sobstvennost
       <<<<1082, 1072, 1076, 1072, 1089, 1090, 1088>>>>,  \* line 57: kadastr
       <<<<1045, 1043, 1056, 1053>>>>,  \* line 57: EGRN
       <<<<1087, 1088, 1072, 1074, 1086, 32, 1089, 1086, 1073, 1089, 1090, 1074, 1077, 1085, 1085, 1086, 1089, 1090, 1080>>>>,  \* line 57: pravo sobstvennosti
       <<<<1082, 1074, 1072, 1088, 1090, 1080, 1088>>>>,  \* line 58: kvartir
       <<<<1076, 1086, 1084>>>>,  \* line 58: dom
       <<<<1079, 1077, 1084, 1077, 1083, 1100, 1085>>>>,  \* line 58: zemel'n
       <<<<1087, 1083, 1086, 1097, 1072, 1076, 1100>>>>,  \* line 58: ploshchad'
       <<<<1086, 1073, 1098, 1077, 1082, 1090, 32, 1085, 1077, 1076, 1074, 1080, 1078, 1080, 1084, 1086, 1089, 1090, 1080>>>> >>  \* line 58: ob''ekt nedvizhimosti

\* CHUNK_TYPE_PATTERNS["contract"], chunker.py line 61
contract_patterns ==
    << <<<<1076, 1086, 1075, 1086, 1074, 1086, 1088>>>>,  \* line 62: dogovor
       <<<<1082, 1086, 1085, 1090, 1088, 1072, 1082, 1090>>>>,  \* line 62: kontrakt
       <<<<1089, 1086, 1075, 1083, 1072, 1096, 1077, 1085, 1080, 1077>>>>,  \* line 62: soglashenie
       <<<<1091, 1089, 1083, 1086, 1074, 1080, 1103, 32, 1076, 1086, 1075, 1086, 1074, 1086, 1088, 1072>>>>,  \* line 62: usloviya dogovora
       <<<<1086, 1073, 1103, 1079, 1072, 1090, 1077, 1083, 1100, 1089, 1090, 1074>>>>,  \* line 63: obyazatel'stv
       <<<<1089, 1090, 1086, 1088, 1086, 1085>>>>,  \* line 63: storon
       <<<<1087, 1086, 1076, 1087, 1080, 1089, 1072, 1085>>>>,  \* line 63: podpisan
       <<<<1089, 1088, 1086, 1082, 32, 1076, 1077, 1081, 1089, 1090, 1074, 1080, 1103>>>> >>  \* line 63: srok dejstviya

\* CHUNK_TYPE_PATTERNS["invoice"], chunker.py line 66
invoice_patterns ==
    << <<<<1089, 1095, 1077, 1090>>>>,  \* line 67: schet
       <<<<1089, 1095, 1105, 1090>>>>,  \* line 67: schyot
       <<<<1092, 1072, 1082, 1090, 1091, 1088, 1072>>>>,  \* line 67: faktura
       <<<<1086, 1087, 1083, 1072, 1090>>>>,  \* line 67: oplat
       <<<<1087, 1083, 1072, 1090, 1077, 1078>>>>,  \* line 67: platezh
       <<<<105, 110, 118, 111, 105, 99, 101>>>>,  \* line 68: invoice
       <<<<112, 97, 121, 109, 101, 110, 116>>>>,  \* line 68: payment
       <<<<1082, 32, 1086, 1087, 1083, 1072, 1090, 1077>>>>,  \* line 68: k oplate
       <<<<1088, 1077, 1082, 1074, 1080, 1079, 1080, 1090, 1099>>>> >>  \* line 68: rekvizity

\* CHUNK_TYPE_PATTERNS["risk"], chunker.py line 71
risk_patterns ==
    << <<<<1088, 1080, 1089, 1082>>>>,  \* line 72: risk
       <<<<1087, 1088, 1086, 1089, 1088, 1086, 1095, 1082>>>>,  \* line 72: prosrochk
       <<<<1096, 1090, 1088, 1072, 1092>>>>,  \* line 72: shtraf
       <<<<1087, 1077, 1085, 1080>>>>,  \* line 72: peni
       <<<<1085, 1072, 1088, 1091, 1096, 1077, 1085, 1080>>>>,  \* line 72: narusheni
       <<<<1091, 1075, 1088, 1086, 1079>>>>,  \* line 73: ugroz
       <<<<1086, 1087, 1072, 1089, 1085, 1086, 1089, 1090>>>>,  \* line 73: opasnost
       <<<<1076, 1077, 1092, 1086, 1083, 1090>>>>,  \* line 73: defolt
       <<<<1085, 1077, 1087, 1083, 1072, 1090, 1077, 1078>>>> >>  \* line 73: neplatezh

\* CHUNK_TYPE_PATTERNS["financial"], chunker.py line 76
financial_patterns ==
    << <<<<1089, 1091, 1084, 1084>>>>,  \* line 77: summ
       <<<<1089, 1090, 1086, 1080, 1084, 1086, 1089, 1090>>>>,  \* line 77: stoimost
       <<<<1094, 1077, 1085>>>>,  \* line 77: tsen
       <<<<1073, 1102, 1076, 1078, 1077, 1090>>>>,  \* line 77: byudzhet
       <<<<1092, 1080, 1085, 1072, 1085, 1089>>>>,  \* line 77: finans
       <<<<1088, 1091, 1073, 1083>>>>,  \* line 78: rubl
       <<<<1076, 1086, 1083, 1083, 1072, 1088>>>>,  \* line 78: dollar
       <<<<1077, 1074, 1088, 1086>>>>,  \* line 78: evro
       <<<<1074, 1072, 1083, 1102, 1090>>>>,  \* line 78: valyut
       <<<<1080, 1090, 1086, 1075, 1086>>>> >>  \* line 78: itogo

\* CHUNK_TYPE_PATTERNS in its declared (dict insertion) order: <<label, patterns>>.
CHUNK_TYPE_PATTERNS ==
    << <<"passport", passport_patterns>>,
       <<"ndfl", ndfl_patterns>>,
       <<"questionnaire", questionnaire_patterns>>,
       <<"bank_statement", bank_statement_patterns>>,
       <<"credit", credit_patterns>>,
       <<"employment", employment_patterns>>,
       <<"property", property_patterns>>,
       <<"contract", contract_patterns>>,
       <<"invoice", invoice_patterns>>,
       <<"risk", risk_patterns>>,
       <<"financial", financial_patterns>> >>

(***************************************************************************)
(* State.                                                                  *)
(***************************************************************************)
VARIABLES
    chunk_size,      \* SemanticChunker.chunk_size
    chunk_overlap,   \* SemanticChunker.chunk_overlap
    tokenizer,       \* SemanticChunker.tokenizer: TRUE for the cl100k_base encoding, FALSE for None
    init_args,       \* the arguments SemanticChunker.__init__ was called with
    pc,              \* per invocation of chunk_document: the line it is at
    cd_text,            \* per invocation: the argument text
    cd_document_id,     \* per invocation: the argument document_id
    cd_client_id,       \* per invocation: the argument client_id
    cd_sections,        \* per invocation: the local sections
    section_pos,     \* per invocation: how many sections the for loop has taken
    cd_all_chunks,      \* per invocation: the local all_chunks
    cd_chunk_index,     \* per invocation: the local chunk_index
    cd_result,          \* per invocation: the value returned
    parse_calls,     \* per invocation: calls of parse_headings it made
    split_calls,     \* per invocation: calls of split_section_into_chunks it made
    returned,        \* the calls that have returned: their arguments and result
    heading_arg,     \* infer_chunk_type called on its own: the argument heading
    text_arg,        \* infer_chunk_type called on its own: the argument text
    inferred,        \* infer_chunk_type called on its own: the value returned
    direct_pc,       \* parse_headings or split_section_into_chunks called on its own: "none", "call" or "returned"
    ph_text,         \* parse_headings called on its own: the argument text
    ph_result,       \* parse_headings called on its own: the value returned
    ss_section,      \* split_section_into_chunks called on its own: the argument section
    ss_start_index,  \* split_section_into_chunks called on its own: the argument start_index
    ss_result,       \* split_section_into_chunks called on its own: the value returned
    ocr_queue,       \* the worker: the bodies in the OCR result queue, the next to deliver first
    delivered,       \* the worker: the number of deliveries made (the last delivery tag)
    delivery,        \* the worker: the body of the last delivery
    settlements,     \* the worker: the basic_ack and basic_nack calls of on_message for the last delivery
    documents,       \* the table documents, by document_id
    chunks_table,    \* the table chunks: its rows
    events,          \* the events that the handler of the last delivery published
    connect_pc,      \* RabbitMQHandler._connect: "idle", "try", "sleep", "returned" or "raised"
    attempt,         \* _connect: the loop variable attempt
    connection,      \* RabbitMQHandler.connection: "None", "open" or "closed"
    channel,         \* RabbitMQHandler.channel: "None", "open" or "closed"
    attempts,        \* _connect: the number of calls of pika.BlockingConnection
    slept,           \* _connect: the seconds spent in time.sleep
    connect_exc      \* _connect: the exception that left it ("" for none)

vars == <<chunk_size, chunk_overlap, tokenizer, init_args, pc, cd_text, cd_document_id,
          cd_client_id, cd_sections, section_pos, cd_all_chunks, cd_chunk_index, cd_result,
          parse_calls, split_calls, returned, heading_arg, text_arg, inferred,
          direct_pc, ph_text, ph_result, ss_section, ss_start_index, ss_result,
          ocr_queue, delivered, delivery, settlements, documents, chunks_table, events,
          connect_pc, attempt, connection, channel, attempts, slept, connect_exc>>

\* An optional str that is None (chunk["heading"] of a section without heading).
NoneStr == <<None>>

\* Truth value of an optional str: None and "" are false.
Truthy(s) == s # NoneStr /\ s # <<>>

(***************************************************************************)
(* Token counting.                                                         *)
(***************************************************************************)
\* The character classes the tokenizer's pre-tokenisation tells apart:
\* whitespace, punctuation, letters and digits.
CharClass(c) ==
    IF IsSpace(c) THEN "space"
    ELSE IF c \in {HASH, DOT, BANG, QMARK, UNDERSCORE, 45} THEN "punct"
    ELSE "word"

\* len(self.tokenizer.encode(text)).  tiktoken is a library outside the
\* repository; it is modelled by the pre-tokenisation of cl100k_base: one token
\* for each maximal run of characters of one class, a single blank before a
\* word or a punctuation run being part of that run's token.
EncodeLen(text) ==
    LET n == Len(text)
        StartsRun(i) == i = 1 \/ CharClass(text[i - 1]) # CharClass(text[i])
        EndsRun(i) == i = n \/ CharClass(text[i + 1]) # CharClass(text[i])
        Absorbed(i) == text[i] = SP /\ StartsRun(i) /\ EndsRun(i) /\ i < n
    IN  Cardinality({i \in 1..n : StartsRun(i) /\ ~Absorbed(i)})

\* SemanticChunker.count_tokens
count_tokens(text) ==
    IF tokenizer THEN EncodeLen(text) ELSE Len(text) \div 4

(***************************************************************************)
(* Chunk type inference.                                                   *)
(***************************************************************************)
\* The literal part occurs in s at position i.
PartAt(part, s, i) ==
    /\ i + Len(part) - 1 <= Len(s)
    /\ \A k \in 1..Len(part) : s[i + k - 1] = part[k]

RECURSIVE MatchRest(_, _, _)
\* The parts after the first match from position pos on, each after a ".*",
\* which matches any run of characters that holds no newline.
MatchRest(parts, s, pos) ==
    IF parts = <<>> THEN TRUE
    ELSE \E j \in pos..(Len(s) - Len(Head(parts)) + 1) :
            /\ PartAt(Head(parts), s, j)
            /\ \A k \in pos..(j - 1) : s[k] # NL
            /\ MatchRest(Tail(parts), s, j + Len(Head(parts)))

\* re.search(pattern, s) is not None.  No flag is passed: the search is
\* case-sensitive.
ReSearch(pattern, s) ==
    \E i \in 1..(Len(s) - Len(Head(pattern)) + 1) :
        /\ PartAt(Head(pattern), s, i)
        /\ MatchRest(Tail(pattern), s, i + Len(Head(pattern)))

\* combined = f"{heading or ''} {text}".lower()
Combined(heading, text) ==
    Lower((IF Truthy(heading) THEN heading ELSE <<>>) \o <<SP>> \o text)

\* any(re.search(pattern, combined) for pattern in patterns)
AnyPattern(patterns, combined) ==
    \E k \in 1..Len(patterns) : ReSearch(patterns[k], combined)

\* SemanticChunker.infer_chunk_type: the label of the first entry, in the
\* dict's order, one of whose patterns is found in combined; else "general".
infer_chunk_type(heading, text) ==
    LET combined == Combined(heading, text)
        hits == {n \in 1..Len(CHUNK_TYPE_PATTERNS) :
                    AnyPattern(CHUNK_TYPE_PATTERNS[n][2], combined)}
    IN  IF hits = {} THEN "general"
        ELSE CHUNK_TYPE_PATTERNS[CHOOSE n \in hits : \A m \in hits : n <= m][1]

(***************************************************************************)
(* Heading parser.                                                         *)
(***************************************************************************)
\* The number of '#' the line starts with.
LeadingHashes(line) ==
    Cardinality({i \in 1..Len(line) : \A j \in 1..i : line[j] = HASH})

\* The length of the whitespace run of line that starts at position i.
SpaceRun(line, i) ==
    Cardinality({j \in i..Len(line) : \A k \in i..j : IsSpace(line[k])})

\* heading_pattern.match(line) for ^(#{1,6})\s+(.+)$ on a line without
\* newline: [matched, level = len(group(1)), text = group(2)].  \s+ is greedy
\* and gives one character back to (.+) when the whitespace runs to the end
\* of the line.
HeadingMatch(line) ==
    LET k == LeadingHashes(line)
        w == SpaceRun(line, k + 1)
    IN  IF k >= 1 /\ k <= 6 /\ w >= 1 /\ k + w < Len(line)
        THEN [matched |-> TRUE, level |-> k, text |-> Drop(line, k + w + 1)]
        ELSE IF k >= 1 /\ k <= 6 /\ w >= 2
        THEN [matched |-> TRUE, level |-> k, text |-> <<line[Len(line)]>>]
        ELSE [matched |-> FALSE, level |-> 0, text |-> <<>>]

\* Section whose content keeps its leading and trailing whitespace: what C11
\* must tell from Section.
SectionUnstripped(cur) ==
    [heading |-> cur.heading,
     heading_level |-> cur.heading_level,
     content |-> Join(cur.content_lines, <<NL>>),
     start_line |-> cur.start_line]

\* One section dict of parse_headings' result (lines 155-160, 177-182).
Section(cur) ==
    [heading |-> cur.heading,
     heading_level |-> cur.heading_level,
     content |-> Strip(Join(cur.content_lines, <<NL>>)),
     start_line |-> cur.start_line]

\* Lines 150-160: the sections after closing the current section at a heading.
CloseAtHeading(sections, cur) ==
    IF cur.content_lines # <<>> \/ Truthy(cur.heading)
    THEN IF Section(cur).content # <<>> \/ Truthy(cur.heading)
         THEN Append(sections, Section(cur))
         ELSE sections
    ELSE sections

\* Lines 174-182: the sections after closing the last section.
CloseAtEnd(sections, cur) ==
    IF cur.content_lines # <<>> \/ Truthy(cur.heading)
    THEN Append(sections, Section(cur))
    ELSE sections

RECURSIVE ParseLoop(_, _, _, _)
\* The loop of parse_headings over enumerate(lines), from the 0-based index i.
ParseLoop(lines, i, sections, cur) ==
    IF i >= Len(lines) THEN CloseAtEnd(sections, cur)
    ELSE LET m == HeadingMatch(lines[i + 1]) IN
         IF m.matched
         THEN ParseLoop(lines, i + 1, CloseAtHeading(sections, cur),
                        [heading |-> Strip(m.text),
                         heading_level |-> m.level,
                         content_lines |-> <<>>,
                         start_line |-> i])
         ELSE ParseLoop(lines, i + 1, sections,
                        [cur EXCEPT !.content_lines = Append(@, lines[i + 1])])

\* SemanticChunker.parse_headings
parse_headings(text) ==
    ParseLoop(SplitOn(text, NL), 0, <<>>,
              [heading |-> NoneStr, heading_level |-> 0,
               content_lines |-> <<>>, start_line |-> 0])

(***************************************************************************)
(* Token-bounded splitter.                                                 *)
(***************************************************************************)
\* ChunkId without the "_" before the index: what C9 must tell from ChunkId.
ChunkIdNoSeparator(document_id, chunk_index) ==
    <<CHAR_c, UNDERSCORE>> \o document_id \o StrOfNat(chunk_index)

\* f"c_{document_id}_{chunk_index}"
ChunkId(document_id, chunk_index) ==
    <<CHAR_c, UNDERSCORE>> \o document_id \o <<UNDERSCORE>> \o StrOfNat(chunk_index)

\* The chunk dict of lines 215-225, 247-257, 274-284, 297-307 and 321-331.
Chunk(document_id, client_id, chunk_index, text, heading, heading_level, chunk_type, token_count) ==
    [chunk_id |-> ChunkId(document_id, chunk_index),
     document_id |-> document_id,
     client_id |-> client_id,
     chunk_index |-> chunk_index,
     text |-> text,
     heading |-> heading,
     heading_level |-> heading_level,
     chunk_type |-> chunk_type,
     token_count |-> token_count]

RECURSIVE SplitParagraphs(_)
\* re.split(r"\n\s*\n", s): the leftmost newline that a run of whitespace
\* joins to another newline starts a separator, which ends at the last such
\* newline (\s* is greedy).
SplitParagraphs(s) ==
    LET Sep(i, j) == /\ s[i] = NL /\ s[j] = NL /\ i < j
                     /\ \A k \in (i + 1)..(j - 1) : IsSpace(s[k])
        starts == {i \in 1..Len(s) : \E j \in 1..Len(s) : Sep(i, j)}
    IN  IF starts = {} THEN <<s>>
        ELSE LET i == CHOOSE x \in starts : \A y \in starts : x <= y
                 ends == {j \in 1..Len(s) : Sep(i, j)}
                 j == CHOOSE x \in ends : \A y \in ends : y <= x
             IN  <<SubSeq(s, 1, i - 1)>> \o SplitParagraphs(Drop(s, j + 1))

RECURSIVE SplitSentences(_)
\* re.split(r"(?<=[.!?])\s+", s): a separator is a maximal run of whitespace
\* that follows a '.', '!' or '?'.
SplitSentences(s) ==
    LET starts == {i \in 2..Len(s) : IsSpace(s[i]) /\ IsSentenceEnd(s[i - 1])}
    IN  IF starts = {} THEN <<s>>
        ELSE LET i == CHOOSE x \in starts : \A y \in starts : x <= y
             IN  <<SubSeq(s, 1, i - 1)>>
                     \o SplitSentences(Drop(s, i + SpaceRun(s, i)))

RECURSIVE OverlapLoop(_, _, _)
\* The loop of _get_overlap_text over reversed(words): words[1..n] are still
\* to visit, overlap_words and token_count are the loop's variables.
OverlapLoop(words, overlap_words, token_count) ==
    IF words = <<>> THEN overlap_words
    ELSE LET word == words[Len(words)]
             word_tokens == count_tokens(word)
         IN  IF token_count + word_tokens > chunk_overlap THEN overlap_words
             ELSE OverlapLoop(SubSeq(words, 1, Len(words) - 1),
                              <<word>> \o overlap_words,
                              token_count + word_tokens)

\* _get_overlap_text that takes every word of the text, whatever
\* chunk_overlap is: what C17 must tell from _get_overlap_text.
OverlapTextUnbounded(text) ==
    IF Words(text) = <<>> THEN <<>> ELSE Join(Words(text), <<SP>>) \o <<SP>>

\* SemanticChunker._get_overlap_text
_get_overlap_text(text) ==
    IF text = <<>> \/ chunk_overlap <= 0 THEN <<>>
    ELSE LET overlap_words == OverlapLoop(Words(text), <<>>, 0)
         IN  IF overlap_words # <<>>
             THEN Join(overlap_words, <<SP>>) \o <<SP>>
             ELSE <<>>

\* Flush that leaves chunk_index as it is: what C15 must tell from Flush.
FlushNoIncrement(st, section, document_id, client_id) ==
    [st EXCEPT
        !.chunks = Append(@,
            Chunk(document_id, client_id, st.chunk_index,
                  Strip(st.current_chunk_text),
                  section.heading, section.heading_level,
                  infer_chunk_type(section.heading, st.current_chunk_text),
                  st.current_chunk_tokens))]

\* The chunk that lines 246-258, 273-285 and 296-308 append for the buffer st:
\* its token_count is the running current_chunk_tokens.
Flush(st, section, document_id, client_id) ==
    [st EXCEPT
        !.chunks = Append(@,
            Chunk(document_id, client_id, st.chunk_index,
                  Strip(st.current_chunk_text),
                  section.heading, section.heading_level,
                  infer_chunk_type(section.heading, st.current_chunk_text),
                  st.current_chunk_tokens)),
        !.chunk_index = @ + 1]

RECURSIVE SentenceLoop(_, _, _, _, _)
\* Lines 264-290: the loop over the sentences of an oversized paragraph.
SentenceLoop(sentences, st, section, document_id, client_id) ==
    IF sentences = <<>> THEN st
    ELSE LET sentence == Strip(Head(sentences))
             sent_tokens == count_tokens(sentence)
         IN  IF sentence = <<>>
             THEN SentenceLoop(Tail(sentences), st, section, document_id, client_id)
             ELSE IF st.current_chunk_tokens + sent_tokens > chunk_size
             THEN LET flushed == IF st.current_chunk_text # <<>>
                                 THEN Flush(st, section, document_id, client_id)
                                 ELSE st
                  IN  SentenceLoop(Tail(sentences),
                          [flushed EXCEPT
                              !.current_chunk_text = sentence \o <<SP>>,
                              !.current_chunk_tokens = sent_tokens],
                          section, document_id, client_id)
             ELSE SentenceLoop(Tail(sentences),
                      [st EXCEPT
                          !.current_chunk_text = @ \o sentence \o <<SP>>,
                          !.current_chunk_tokens = @ + sent_tokens],
                      section, document_id, client_id)

\* OversizedParagraph that leaves the buffer as it is before the sentences:
\* what C21 must tell from OversizedParagraph.
OversizedParagraphNoFlush(para, st, section, document_id, client_id) ==
    SentenceLoop(SplitSentences(para), st, section, document_id, client_id)

\* Lines 243-290: a paragraph that alone exceeds chunk_size.
OversizedParagraph(para, st, section, document_id, client_id) ==
    LET flushed == IF st.current_chunk_text # <<>>
                   THEN [Flush(st, section, document_id, client_id) EXCEPT
                            !.current_chunk_text = <<>>,
                            !.current_chunk_tokens = 0]
                   ELSE st
    IN  SentenceLoop(SplitSentences(para), flushed, section, document_id, client_id)

\* Lines 293-313: a paragraph that fits but overflows the buffer; the new
\* buffer starts with the overlap of the old one.
OverflowParagraph(para, st, section, document_id, client_id) ==
    LET flushed == IF st.current_chunk_text # <<>>
                   THEN Flush(st, section, document_id, client_id)
                   ELSE st
        text == _get_overlap_text(st.current_chunk_text) \o para \o <<NL, NL>>
    IN  [flushed EXCEPT
            !.current_chunk_text = text,
            !.current_chunk_tokens = count_tokens(text)]

RECURSIVE ParagraphLoop(_, _, _, _, _)
\* Lines 235-316: the loop over the paragraphs.
ParagraphLoop(paragraphs, st, section, document_id, client_id) ==
    IF paragraphs = <<>> THEN st
    ELSE LET para == Strip(Head(paragraphs))
             para_tokens == count_tokens(para)
             rest == Tail(paragraphs)
         IN  IF para = <<>>
             THEN ParagraphLoop(rest, st, section, document_id, client_id)
             ELSE IF para_tokens > chunk_size
             THEN ParagraphLoop(rest,
                      OversizedParagraph(para, st, section, document_id, client_id),
                      section, document_id, client_id)
             ELSE IF st.current_chunk_tokens + para_tokens > chunk_size
             THEN ParagraphLoop(rest,
                      OverflowParagraph(para, st, section, document_id, client_id),
                      section, document_id, client_id)
             ELSE ParagraphLoop(rest,
                      [st EXCEPT
                          !.current_chunk_text = @ \o para \o <<NL, NL>>,
                          !.current_chunk_tokens = @ + para_tokens],
                      section, document_id, client_id)

\* Lines 318-334: the final chunk, whose token_count is counted on the buffer.
FinalFlush(st, section, document_id, client_id) ==
    IF Strip(st.current_chunk_text) # <<>>
    THEN Flush([st EXCEPT !.current_chunk_tokens = count_tokens(st.current_chunk_text)],
               section, document_id, client_id)
    ELSE st

\* Lines 203-204: the heading line put back before the content.
FullText(section) ==
    Strip(IF Truthy(section.heading)
          THEN Repeat(HASH, section.heading_level) \o <<SP>> \o section.heading
                   \o <<NL, NL>> \o section.content
          ELSE section.content)

\* FitsInOneChunk with < for <=: what C16 must tell from FitsInOneChunk.
FitsInOneChunkStrict(token_count) == token_count < chunk_size

\* Line 213: the section fits in one chunk.
FitsInOneChunk(token_count) == token_count <= chunk_size

\* SemanticChunker.split_section_into_chunks: [chunks, next_index].
split_section_into_chunks(section, document_id, client_id, start_index) ==
    LET full_text == FullText(section)
        token_count == count_tokens(full_text)
    IN  IF full_text = <<>>
        THEN [chunks |-> <<>>, next_index |-> start_index]
        ELSE IF FitsInOneChunk(token_count)
        THEN [chunks |-> <<Chunk(document_id, client_id, start_index, full_text,
                                 section.heading, section.heading_level,
                                 infer_chunk_type(section.heading, section.content),
                                 token_count)>>,
              next_index |-> start_index + 1]
        ELSE LET st == FinalFlush(
                          ParagraphLoop(SplitParagraphs(full_text),
                              [chunks |-> <<>>, current_chunk_text |-> <<>>,
                               current_chunk_tokens |-> 0, chunk_index |-> start_index],
                              section, document_id, client_id),
                          section, document_id, client_id)
             IN  [chunks |-> st.chunks, next_index |-> st.chunk_index]

(***************************************************************************)
(* Chunk assembler.                                                        *)
(***************************************************************************)
\* IsBlank without the strip(): what C10 must tell from IsBlank.
IsBlankNoStrip(text) == text = <<>>

\* Line 372: not text or not text.strip()
IsBlank(text) == text = <<>> \/ Strip(text) = <<>>

\* SectionsOf without the section made up for an empty list: what C24 must
\* tell from SectionsOf.
SectionsOfParserOnly(text) == parse_headings(text)

\* Lines 379-388: the parsed sections, or one section holding the whole text
\* when the parser returns none.
SectionsOf(text) ==
    LET sections == parse_headings(text)
    IN  IF sections = <<>>
        THEN <<[heading |-> NoneStr, heading_level |-> 0,
                content |-> text, start_line |-> 0]>>
        ELSE sections

\* Extend that puts the section's chunks before the list: what C23 must tell
\* from Extend.
ExtendFront(all_chunks, section_chunks) == section_chunks \o all_chunks

\* Line 398: all_chunks.extend(section_chunks)
Extend(all_chunks, section_chunks) == all_chunks \o section_chunks

RECURSIVE SectionLoop(_, _, _, _, _)
\* Lines 394-398: the loop over the sections.
SectionLoop(sections, document_id, client_id, all_chunks, chunk_index) ==
    IF sections = <<>> THEN all_chunks
    ELSE LET r == split_section_into_chunks(Head(sections), document_id,
                                            client_id, chunk_index)
         IN  SectionLoop(Tail(sections), document_id, client_id,
                         Extend(all_chunks, r.chunks), r.next_index)

\* SemanticChunker.chunk_document, run from its first line to its return.
chunk_document(text, document_id, client_id) ==
    IF IsBlank(text) THEN <<>>
    ELSE SectionLoop(SectionsOf(text), document_id, client_id, <<>>, 0)

(***************************************************************************)
(* The chunker as a state machine: its construction, and chunk_document    *)
(* run statement by statement by each of the invocations.                  *)
(***************************************************************************)
\* Config.CHUNK_SIZE and Config.CHUNK_OVERLAP (their defaults).
CHUNK_SIZE == 500
CHUNK_OVERLAP == 50

\* arg or default, for an optional int: None and 0 are false.
OrDefault(arg, default) == IF arg = None \/ arg = 0 THEN default ELSE arg

\* The invocations that may run at once on the one chunker.
Threads == {1, 2}

\* The longest document, in lines.
MaxLines == 3

\* The lines the documents are made of:
\* "", "aaaa", "aaa. bbbb", "# aa" and "#  ".
Lines ==
    { <<>>,
      <<97, 97, 97, 97>>,
      <<97, 97, 97, DOT, SP, 98, 98, 98, 98>>,
      <<HASH, SP, 97, 97>>,
      <<HASH, SP, SP>> }

\* The documents: 1..MaxLines lines joined by newlines.
Texts ==
    {Join(ls, <<NL>>) : ls \in UNION {[1..n -> Lines] : n \in 1..MaxLines}}

\* The document and client identifiers: "d1" and "cl".
DocumentIds == {<<100, 49>>}
ClientIds == {<<CHAR_c, 108>>}

\* The arguments __init__ is called with.
SizeArgs == {None, 1, 2}
OverlapArgs == {None, 0, 1, -1}

\* SemanticChunker.__init__
Construct(size_arg, overlap_arg, encoding_loaded) ==
    /\ init_args = [chunk_size |-> size_arg, chunk_overlap |-> overlap_arg]
    /\ chunk_size = OrDefault(size_arg, CHUNK_SIZE)
    /\ chunk_overlap = OrDefault(overlap_arg, CHUNK_OVERLAP)
    /\ tokenizer = encoding_loaded

\* No invocation of chunk_document has started.
NoInvocation ==
    /\ pc = [t \in Threads |-> "idle"]
    /\ cd_text = [t \in Threads |-> <<>>]
    /\ cd_document_id = [t \in Threads |-> <<>>]
    /\ cd_client_id = [t \in Threads |-> <<>>]
    /\ cd_sections = [t \in Threads |-> <<>>]
    /\ section_pos = [t \in Threads |-> 0]
    /\ cd_all_chunks = [t \in Threads |-> <<>>]
    /\ cd_chunk_index = [t \in Threads |-> 0]
    /\ cd_result = [t \in Threads |-> <<>>]
    /\ parse_calls = [t \in Threads |-> 0]
    /\ split_calls = [t \in Threads |-> 0]
    /\ returned = {}

\* infer_chunk_type is not called on its own.
NoInference ==
    /\ heading_arg = NoneStr
    /\ text_arg = <<>>
    /\ inferred = ""

\* Neither parse_headings nor split_section_into_chunks is called on its own.
NoDirectCall ==
    /\ direct_pc = "none"
    /\ ph_text = <<>>
    /\ ph_result = <<>>
    /\ ss_section = [heading |-> NoneStr, heading_level |-> 0,
                     content |-> <<>>, start_line |-> 0]
    /\ ss_start_index = 0
    /\ ss_result = [chunks |-> <<>>, next_index |-> 0]

ChunkerUnchanged == UNCHANGED <<chunk_size, chunk_overlap, tokenizer, init_args>>
InferenceUnchanged == UNCHANGED <<heading_arg, text_arg, inferred>>
DirectUnchanged == UNCHANGED <<direct_pc, ph_text, ph_result, ss_section, ss_start_index, ss_result>>

\* A row of the table documents that does not exist.
NoDocument ==
    [present |-> FALSE, client_id |-> <<>>, fulltext |-> <<>>,
     chunked |-> FALSE, chunk_count |-> None]

\* _connect is not running.
NoConnect ==
    /\ connect_pc = "idle"
    /\ attempt = 0
    /\ connection = "None"
    /\ channel = "None"
    /\ attempts = 0
    /\ slept = 0
    /\ connect_exc = ""

ConnectUnchanged ==
    UNCHANGED <<connect_pc, attempt, connection, channel, attempts, slept, connect_exc>>

\* The worker has not started: empty queue, empty tables, no event.
NoDeliveries ==
    /\ ocr_queue = <<>>
    /\ delivered = 0
    /\ delivery = <<>>
    /\ settlements = <<>>
    /\ documents = [d \in DocumentIds |-> NoDocument]
    /\ chunks_table = <<>>
    /\ events = <<>>

NoWorker == NoDeliveries /\ NoConnect

DeliveriesUnchanged ==
    UNCHANGED <<ocr_queue, delivered, delivery, settlements, documents, chunks_table, events>>

WorkerUnchanged == DeliveriesUnchanged /\ ConnectUnchanged

\* chunk_document(txt, doc, client) is called by invocation t.
Enter(t, txt, doc, client) ==
    /\ pc' = [pc EXCEPT ![t] = "check"]
    /\ cd_text' = [cd_text EXCEPT ![t] = txt]
    /\ cd_document_id' = [cd_document_id EXCEPT ![t] = doc]
    /\ cd_client_id' = [cd_client_id EXCEPT ![t] = client]
    /\ cd_result' = [cd_result EXCEPT ![t] = <<>>]
    /\ parse_calls' = [parse_calls EXCEPT ![t] = 0]
    /\ split_calls' = [split_calls EXCEPT ![t] = 0]

\* The calls of the concurrent callers: document "d1" with the text
\* "aaa. bbbb\n# aa", document "7" with the text "aaaa", and document "d1"
\* again with the text "\n".
CallInputs ==
    { [text |-> <<97, 97, 97, DOT, SP, 98, 98, 98, 98, NL,
                  HASH, SP, 97, 97>>,
       document_id |-> <<100, 49>>, client_id |-> <<CHAR_c, 108>>],
      [text |-> <<97, 97, 97, 97>>,
       document_id |-> <<55>>, client_id |-> <<CHAR_c, 108>>],
      [text |-> <<NL>>,
       document_id |-> <<100, 49>>, client_id |-> <<CHAR_c, 108>>] }

\* A caller calls chunk_document on the shared chunker.
Call(t) ==
    /\ pc[t] = "idle"
    /\ \E call \in CallInputs :
           Enter(t, call.text, call.document_id, call.client_id)
    /\ UNCHANGED <<cd_sections, section_pos, cd_all_chunks, cd_chunk_index, returned>>
    /\ ChunkerUnchanged /\ InferenceUnchanged /\ DirectUnchanged /\ WorkerUnchanged

\* Lines 372-374: an empty document returns [] at once.
CheckEmpty(t) ==
    /\ pc[t] = "check"
    /\ IF IsBlank(cd_text[t])
       THEN /\ cd_result' = [cd_result EXCEPT ![t] = <<>>]
            /\ pc' = [pc EXCEPT ![t] = "done"]
       ELSE /\ pc' = [pc EXCEPT ![t] = "parse"]
            /\ UNCHANGED cd_result
    /\ UNCHANGED <<cd_text, cd_document_id, cd_client_id, cd_sections, section_pos, cd_all_chunks,
                   cd_chunk_index, parse_calls, split_calls, returned>>
    /\ ChunkerUnchanged /\ InferenceUnchanged /\ DirectUnchanged /\ WorkerUnchanged

\* FirstIndex as a counter kept from the invocation's last call: what C7 must
\* tell from FirstIndex.
FirstIndexKept(t) == cd_chunk_index[t]

\* Line 392: chunk_index = 0
FirstIndex(t) == 0

\* Lines 379-392: the sections, and the empty list of chunks.
Parse(t) ==
    /\ pc[t] = "parse"
    /\ cd_sections' = [cd_sections EXCEPT ![t] = SectionsOf(cd_text[t])]
    /\ section_pos' = [section_pos EXCEPT ![t] = 0]
    /\ cd_all_chunks' = [cd_all_chunks EXCEPT ![t] = <<>>]
    /\ cd_chunk_index' = [cd_chunk_index EXCEPT ![t] = FirstIndex(t)]
    /\ parse_calls' = [parse_calls EXCEPT ![t] = @ + 1]
    /\ pc' = [pc EXCEPT ![t] = "loop"]
    /\ UNCHANGED <<cd_text, cd_document_id, cd_client_id, cd_result, split_calls, returned>>
    /\ ChunkerUnchanged /\ InferenceUnchanged /\ DirectUnchanged /\ WorkerUnchanged

\* StoreIndex into a counter that the invocations share: what C8 must tell
\* from StoreIndex.
StoreIndexShared(t, next_index) == [u \in Threads |-> next_index]

\* Line 395: the assignment of the returned next index to the local chunk_index.
StoreIndex(t, next_index) == [cd_chunk_index EXCEPT ![t] = next_index]

\* StartIndex that starts every section at 0: what C1 must tell from
\* StartIndex.
StartIndexZero(t) == 0

\* Line 396: the start_index passed to split_section_into_chunks.
StartIndex(t) == cd_chunk_index[t]

\* Lines 394-398: one turn of the loop over the sections.
SplitNext(t) ==
    /\ pc[t] = "loop"
    /\ section_pos[t] < Len(cd_sections[t])
    /\ LET r == split_section_into_chunks(cd_sections[t][section_pos[t] + 1],
                    cd_document_id[t], cd_client_id[t], StartIndex(t))
       IN  /\ cd_all_chunks' = [cd_all_chunks EXCEPT ![t] = Extend(@, r.chunks)]
           /\ cd_chunk_index' = StoreIndex(t, r.next_index)
    /\ section_pos' = [section_pos EXCEPT ![t] = @ + 1]
    /\ split_calls' = [split_calls EXCEPT ![t] = @ + 1]
    /\ UNCHANGED <<pc, cd_text, cd_document_id, cd_client_id, cd_sections, cd_result, parse_calls,
                   returned>>
    /\ ChunkerUnchanged /\ InferenceUnchanged /\ DirectUnchanged /\ WorkerUnchanged

\* LoopExhausted that waits for one section more than there are: what C19
\* must tell from LoopExhausted.
LoopExhaustedLate(t) == section_pos[t] = Len(cd_sections[t]) + 1

\* Line 394: the for loop has taken every section.
LoopExhausted(t) == section_pos[t] = Len(cd_sections[t])

\* Line 401: return all_chunks
ReturnChunks(t) ==
    /\ pc[t] = "loop"
    /\ LoopExhausted(t)
    /\ cd_result' = [cd_result EXCEPT ![t] = cd_all_chunks[t]]
    /\ pc' = [pc EXCEPT ![t] = "done"]
    /\ UNCHANGED <<cd_text, cd_document_id, cd_client_id, cd_sections, section_pos, cd_all_chunks,
                   cd_chunk_index, parse_calls, split_calls, returned>>
    /\ ChunkerUnchanged /\ InferenceUnchanged /\ DirectUnchanged /\ WorkerUnchanged

\* The caller has the returned list.
Collect(t) ==
    /\ pc[t] = "done"
    /\ returned' = returned \cup
           {[text |-> cd_text[t], document_id |-> cd_document_id[t],
             client_id |-> cd_client_id[t], result |-> cd_result[t]]}
    /\ pc' = [pc EXCEPT ![t] = "idle"]
    /\ UNCHANGED <<cd_text, cd_document_id, cd_client_id, cd_sections, section_pos, cd_all_chunks,
                   cd_chunk_index, cd_result, parse_calls, split_calls>>
    /\ ChunkerUnchanged /\ InferenceUnchanged /\ DirectUnchanged /\ WorkerUnchanged

\* One call of chunk_document on a newly built chunker.
Init ==
    /\ \E size_arg \in SizeArgs, overlap_arg \in OverlapArgs, loaded \in BOOLEAN :
           Construct(size_arg, overlap_arg, loaded)
    /\ \E txt \in Texts, doc \in DocumentIds, client \in ClientIds :
           /\ pc = [t \in Threads |-> IF t = 1 THEN "check" ELSE "idle"]
           /\ cd_text = [t \in Threads |-> IF t = 1 THEN txt ELSE <<>>]
           /\ cd_document_id = [t \in Threads |-> IF t = 1 THEN doc ELSE <<>>]
           /\ cd_client_id = [t \in Threads |-> IF t = 1 THEN client ELSE <<>>]
    /\ cd_sections = [t \in Threads |-> <<>>]
    /\ section_pos = [t \in Threads |-> 0]
    /\ cd_all_chunks = [t \in Threads |-> <<>>]
    /\ cd_chunk_index = [t \in Threads |-> 0]
    /\ cd_result = [t \in Threads |-> <<>>]
    /\ parse_calls = [t \in Threads |-> 0]
    /\ split_calls = [t \in Threads |-> 0]
    /\ returned = {}
    /\ NoInference
    /\ NoDirectCall
    /\ NoWorker

Next ==
    \/ CheckEmpty(1)
    \/ Parse(1)
    \/ SplitNext(1)
    \/ ReturnChunks(1)

Spec == Init /\ [][Next]_vars

\* The control flow of invocation t: the guards of CheckEmpty, Parse,
\* SplitNext and ReturnChunks, and what each does to pc and section_pos.
Progress(t) ==
    \/ /\ pc[t] = "check"
       /\ pc' = [pc EXCEPT ![t] = IF IsBlank(cd_text[t]) THEN "done" ELSE "parse"]
       /\ UNCHANGED section_pos
    \/ /\ pc[t] = "parse"
       /\ pc' = [pc EXCEPT ![t] = "loop"]
       /\ section_pos' = [section_pos EXCEPT ![t] = 0]
    \/ /\ pc[t] = "loop"
       /\ section_pos[t] < Len(cd_sections[t])
       /\ section_pos' = [section_pos EXCEPT ![t] = @ + 1]
       /\ UNCHANGED pc
    \/ /\ pc[t] = "loop"
       /\ LoopExhausted(t)
       /\ pc' = [pc EXCEPT ![t] = "done"]
       /\ UNCHANGED section_pos

\* The one call runs on: chunk_document makes no blocking call and waits for
\* nothing, so a statement that can be executed is executed.  The steps of
\* Next are the steps of Progress(1), which states them by pc and section_pos.
SpecLive == Init /\ [][Next]_vars /\ WF_<<pc, section_pos>>(Progress(1))

(***************************************************************************)
(* Callers that call chunk_document on one chunker again and again, and    *)
(* at the same time: the steps of the invocations interleave.              *)
(***************************************************************************)
InitConc ==
    /\ \E loaded \in BOOLEAN : Construct(1, 1, loaded)
    /\ NoInvocation
    /\ NoInference
    /\ NoDirectCall
    /\ NoWorker

NextConc ==
    \E t \in Threads :
        \/ Call(t)
        \/ CheckEmpty(t)
        \/ Parse(t)
        \/ SplitNext(t)
        \/ ReturnChunks(t)
        \/ Collect(t)

SpecConc == InitConc /\ [][NextConc]_vars

(***************************************************************************)
(* infer_chunk_type called on its own.                                     *)
(***************************************************************************)
\* The longest text, in words.
MaxWords == 2

\* The words of the texts: FIO, fio, BIK, Dogovor, summa, shtraf, kredit,
\* zajm, familiya, "imya otchestvo" and x.
Vocabulary ==
    { <<1060, 1048, 1054>>,
      <<1092, 1080, 1086>>,
      <<1041, 1048, 1050>>,
      <<1044, 1086, 1075, 1086, 1074, 1086, 1088>>,
      <<1089, 1091, 1084, 1084, 1072>>,
      <<1096, 1090, 1088, 1072, 1092>>,
      <<1082, 1088, 1077, 1076, 1080, 1090>>,
      <<1079, 1072, 1081, 1084>>,
      <<1092, 1072, 1084, 1080, 1083, 1080, 1103>>,
      <<1080, 1084, 1103, SP, 1086, 1090, 1095, 1077, 1089, 1090, 1074, 1086>>,
      <<120>> }

\* The texts: 1..MaxWords words joined by blanks.
KeywordTexts ==
    {Join(ws, <<SP>>) : ws \in UNION {[1..n -> Vocabulary] : n \in 1..MaxWords}}

\* The headings: None, "", EGRN and "familiya\n".
Headings ==
    { NoneStr, <<>>, <<1045, 1043, 1056, 1053>>,
      <<1092, 1072, 1084, 1080, 1083, 1080, 1103, NL>> }

InitClassify ==
    /\ \E loaded \in BOOLEAN : Construct(None, None, loaded)
    /\ NoInvocation
    /\ heading_arg \in Headings
    /\ text_arg \in KeywordTexts
    /\ inferred = ""
    /\ NoDirectCall
    /\ NoWorker

\* A caller calls infer_chunk_type(heading_arg, text_arg).
Infer ==
    /\ inferred = ""
    /\ inferred' = infer_chunk_type(heading_arg, text_arg)
    /\ UNCHANGED <<heading_arg, text_arg, pc, cd_text, cd_document_id, cd_client_id,
                   cd_sections, section_pos, cd_all_chunks, cd_chunk_index, cd_result,
                   parse_calls, split_calls, returned>>
    /\ ChunkerUnchanged /\ DirectUnchanged /\ WorkerUnchanged

NextClassify == Infer

SpecClassify == InitClassify /\ [][NextClassify]_vars

(***************************************************************************)
(* parse_headings called on its own.                                       *)
(***************************************************************************)
\* The lines of the texts: the lines of the documents and " ", " aaaa ",
\* "#aa", "####### aa" and "## bb ".
ParseLines ==
    Lines \cup
    { <<SP>>,
      <<SP, 97, 97, 97, 97, SP>>,
      <<HASH, 97, 97>>,
      <<HASH, HASH, HASH, HASH, HASH, HASH, HASH, SP, 97, 97>>,
      <<HASH, HASH, SP, 98, 98, SP>> }

\* The texts: 1..MaxLines lines joined by newlines.
ParseTexts ==
    {Join(ls, <<NL>>) : ls \in UNION {[1..n -> ParseLines] : n \in 1..MaxLines}}

InitParse ==
    /\ \E loaded \in BOOLEAN : Construct(None, None, loaded)
    /\ NoInvocation
    /\ NoInference
    /\ direct_pc = "call"
    /\ ph_text \in ParseTexts
    /\ ph_result = <<>>
    /\ ss_section = [heading |-> NoneStr, heading_level |-> 0,
                     content |-> <<>>, start_line |-> 0]
    /\ ss_start_index = 0
    /\ ss_result = [chunks |-> <<>>, next_index |-> 0]
    /\ NoWorker

\* A caller calls parse_headings(ph_text).
ParseHeadings ==
    /\ direct_pc = "call"
    /\ ph_result' = parse_headings(ph_text)
    /\ direct_pc' = "returned"
    /\ UNCHANGED <<ph_text, ss_section, ss_start_index, ss_result, pc, cd_text,
                   cd_document_id, cd_client_id, cd_sections, section_pos,
                   cd_all_chunks, cd_chunk_index, cd_result, parse_calls,
                   split_calls, returned>>
    /\ ChunkerUnchanged /\ InferenceUnchanged /\ WorkerUnchanged

NextParse == ParseHeadings

SpecParse == InitParse /\ [][NextParse]_vars

(***************************************************************************)
(* split_section_into_chunks called on its own.                            *)
(***************************************************************************)
\* The longest section content, in paragraphs.
MaxParagraphs == 3

\* The paragraphs of the contents: "aaaa", "aaa. bbbb" and "aa" (which counts
\* no token with the len(text) // 4 counter).
Paragraphs ==
    { <<97, 97, 97, 97>>,
      <<97, 97, 97, DOT, SP, 98, 98, 98, 98>>,
      <<97, 97>> }

\* The contents: 0..MaxParagraphs paragraphs, a blank line after each but the last.
Contents ==
    {Join(ps, <<NL, NL>>) : ps \in UNION {[1..n -> Paragraphs] : n \in 0..MaxParagraphs}}

\* The section of "# Title\n\nShort body.".
TitleSection ==
    [heading |-> <<84, 105, 116, 108, 101>>,
     heading_level |-> 1,
     content |-> <<83, 104, 111, 114, 116, SP, 98, 111, 100, 121, DOT>>,
     start_line |-> 0]

\* The section of "# kod\ndokhoda" (in Cyrillic): the pattern "kod dokhoda" of
\* the label ndfl has one word in the heading and the other in the content.
KodSection ==
    [heading |-> <<1082, 1086, 1076>>,
     heading_level |-> 1,
     content |-> <<1076, 1086, 1093, 1086, 1076, 1072>>,
     start_line |-> 0]

\* The sections: without heading, with the heading "" and with the heading
\* "aa", each with every content, the section of "# Title\n\nShort body."
\* and the section of "# kod\ndokhoda".
SectionArgs ==
    {[heading |-> h[1], heading_level |-> h[2], content |-> c, start_line |-> 0] :
        h \in {<<NoneStr, 0>>, <<<<>>, 1>>, <<<<97, 97>>, 1>>}, c \in Contents}
    \cup {TitleSection, KodSection}

\* The values of start_index.
StartIndexArgs == {0, 3}

InitSplit ==
    /\ \E size_arg \in SizeArgs, overlap_arg \in OverlapArgs, loaded \in BOOLEAN :
           Construct(size_arg, overlap_arg, loaded)
    /\ NoInvocation
    /\ NoInference
    /\ direct_pc = "call"
    /\ ph_text = <<>>
    /\ ph_result = <<>>
    /\ ss_section \in SectionArgs
    /\ ss_start_index \in StartIndexArgs
    /\ ss_result = [chunks |-> <<>>, next_index |-> 0]
    /\ NoWorker

\* A caller calls split_section_into_chunks(ss_section, "d1", "cl", ss_start_index).
SplitSection ==
    /\ direct_pc = "call"
    /\ ss_result' = split_section_into_chunks(ss_section, <<100, 49>>, <<CHAR_c, 108>>,
                                              ss_start_index)
    /\ direct_pc' = "returned"
    /\ UNCHANGED <<ph_text, ph_result, ss_section, ss_start_index, pc, cd_text,
                   cd_document_id, cd_client_id, cd_sections, section_pos,
                   cd_all_chunks, cd_chunk_index, cd_result, parse_calls,
                   split_calls, returned>>
    /\ ChunkerUnchanged /\ InferenceUnchanged /\ WorkerUnchanged

NextSplit == SplitSection

SpecSplit == InitSplit /\ [][NextSplit]_vars

(***************************************************************************)
(* The chunking worker: the messages of the OCR result queue, the store    *)
(* and the events it publishes (main.py, db.py, rabbitmq_handler.py).      *)
(***************************************************************************)
\* The characters of the JSON syntax.
QUOTE == 34
COLON == 58
COMMA == 44
LBRACE == 123
RBRACE == 125

\* The str literals of the messages: "status", "success", "error",
\* "document_id" and "client_id".
STATUS == <<115, 116, 97, 116, 117, 115>>
SUCCESS == <<115, 117, 99, 99, 101, 115, 115>>
ERROR == <<101, 114, 114, 111, 114>>
DOCUMENT_ID == <<100, 111, 99, 117, 109, 101, 110, 116, UNDERSCORE, 105, 100>>
CLIENT_ID == <<CHAR_c, 108, 105, 101, 110, 116, UNDERSCORE, 105, 100>>

\* The values json.loads returns: None, an int, a str or a dict of str values.
JsonNull == [type |-> "null", str |-> <<>>, items |-> <<>>]
JsonInt(digits) == [type |-> "int", str |-> digits, items |-> <<>>]
JsonStr(s) == [type |-> "str", str |-> s, items |-> <<>>]
JsonDict(items) == [type |-> "dict", str |-> <<>>, items |-> items]

\* The parse failed at this place.
NoParse == [ok |-> FALSE, value |-> JsonNull, next |-> 0]

RECURSIVE SkipWs(_, _)
\* The first position from i on that holds no JSON whitespace.
SkipWs(s, i) ==
    IF i <= Len(s) /\ s[i] \in {SP, NL, 9, 13} THEN SkipWs(s, i + 1) ELSE i

RECURSIVE DigitRun(_, _)
\* The number of digits from position i on.
DigitRun(s, i) ==
    IF i <= Len(s) /\ s[i] >= DIGIT_0 /\ s[i] <= DIGIT_0 + 9
    THEN 1 + DigitRun(s, i + 1) ELSE 0

\* A JSON string at position i: the characters up to the next quote (the
\* strings of the messages hold no escape and no control character).
ParseString(s, i) ==
    IF i > Len(s) \/ s[i] # QUOTE THEN NoParse
    ELSE LET ends == {j \in (i + 1)..Len(s) : s[j] = QUOTE \/ s[j] < SP}
         IN  IF ends = {} THEN NoParse
             ELSE LET j == CHOOSE x \in ends : \A y \in ends : x <= y
                  IN  IF s[j] # QUOTE THEN NoParse
                      ELSE [ok |-> TRUE, value |-> JsonStr(SubSeq(s, i + 1, j - 1)),
                            next |-> j + 1]

\* A JSON value that is no container, at position i: a string, null or an
\* int without sign whose first digit is not 0 unless it is the only one.
ParseScalar(s, i) ==
    IF i > Len(s) THEN NoParse
    ELSE IF s[i] = QUOTE THEN ParseString(s, i)
    ELSE IF i + 3 <= Len(s) /\ SubSeq(s, i, i + 3) = <<110, 117, 108, 108>>
    THEN [ok |-> TRUE, value |-> JsonNull, next |-> i + 4]
    ELSE LET n == DigitRun(s, i)
         IN  IF n = 0 THEN NoParse
             ELSE IF s[i] = DIGIT_0
             THEN [ok |-> TRUE, value |-> JsonInt(<<DIGIT_0>>), next |-> i + 1]
             ELSE [ok |-> TRUE, value |-> JsonInt(SubSeq(s, i, i + n - 1)),
                   next |-> i + n]

RECURSIVE ParseMembers(_, _, _)
\* The members of a JSON object from position i on, after '{' or ',':
\* "key": value pairs, the value of a key given twice being the last one.
ParseMembers(s, i, items) ==
    LET key == ParseString(s, SkipWs(s, i))
        colon == SkipWs(s, key.next)
        val == ParseScalar(s, SkipWs(s, colon + 1))
        after == SkipWs(s, val.next)
        added == [k \in 1..Len(items) |-> items[k]]
                     \o <<[key |-> key.value.str, value |-> val.value]>>
    IN  IF ~key.ok \/ colon > Len(s) \/ s[colon] # COLON THEN NoParse
        ELSE IF ~val.ok \/ after > Len(s) THEN NoParse
        ELSE IF s[after] = RBRACE
        THEN [ok |-> TRUE, value |-> JsonDict(added), next |-> after + 1]
        ELSE IF s[after] = COMMA THEN ParseMembers(s, after + 1, added)
        ELSE NoParse

\* A JSON value at position i: an object of scalar members, or a scalar.
ParseValue(s, i) ==
    IF i <= Len(s) /\ s[i] = LBRACE
    THEN IF SkipWs(s, i + 1) <= Len(s) /\ s[SkipWs(s, i + 1)] = RBRACE
         THEN [ok |-> TRUE, value |-> JsonDict(<<>>), next |-> SkipWs(s, i + 1) + 1]
         ELSE ParseMembers(s, i + 1, <<>>)
    ELSE ParseScalar(s, i)

\* json.loads(body) for a bytes body: the bytes are decoded as UTF-8 (a body
\* with a byte of 0x80 or more that starts no UTF-8 sequence raises
\* UnicodeDecodeError, a ValueError that is no JSONDecodeError), then one
\* value is parsed, whitespace around it allowed and nothing else after it.
json_loads(body) ==
    IF \E i \in 1..Len(body) : body[i] >= 128
    THEN [raised |-> "UnicodeDecodeError", value |-> JsonNull]
    ELSE LET r == ParseValue(body, SkipWs(body, 1))
         IN  IF r.ok /\ SkipWs(body, r.next) = Len(body) + 1
             THEN [raised |-> "", value |-> r.value]
             ELSE [raised |-> "JSONDecodeError", value |-> JsonNull]

\* dict.get(key): the value of the key's last member, or None.
DictGet(dict, key) ==
    LET hits == {k \in 1..Len(dict.items) : dict.items[k].key = key}
    IN  IF hits = {} THEN JsonNull
        ELSE dict.items[CHOOSE k \in hits : \A m \in hits : m <= k].value

\* Truth value of a JSON value: None, 0, "" and {} are false.
JsonTruthy(v) ==
    CASE v.type = "null" -> FALSE
      [] v.type = "int" -> v.str # <<DIGIT_0>>
      [] v.type = "str" -> v.str # <<>>
      [] OTHER -> v.items # <<>>

\* json.dumps(message) for a dict of str values.
json_dumps(items) ==
    <<LBRACE>>
        \o Join([k \in 1..Len(items) |->
                    <<QUOTE>> \o items[k].key \o <<QUOTE, COLON, SP, QUOTE>>
                        \o items[k].value.str \o <<QUOTE>>],
                <<COMMA, SP>>)
        \o <<RBRACE>>

\* The longest run of the worker, in deliveries of messages.
MaxDeliveries == 3

\* The texts the recognizer stores as fulltext: "aaaa\n\naaaa\n\naaaa", "aaaa",
\* " " and "".
Fulltexts ==
    { <<97, 97, 97, 97, NL, NL, 97, 97, 97, 97, NL, NL, 97, 97, 97, 97>>,
      <<97, 97, 97, 97>>,
      <<SP>>,
      <<>> }

\* The message the recognizer publishes for a document it has stored (of its
\* members the worker reads status, document_id and client_id).
OcrSuccess(document_id, client_id) ==
    json_dumps(<<[key |-> STATUS, value |-> JsonStr(SUCCESS)],
                 [key |-> DOCUMENT_ID, value |-> JsonStr(document_id)],
                 [key |-> CLIENT_ID, value |-> JsonStr(client_id)]>>)

\* The other bodies that come to the queue: the recognizer's error message
\* for "d1", a success message for the unknown document "d9", a success
\* message without document_id, the JSON text 5, the cut-off text {"status":
\* and the single byte 0xFF.
OtherBodies ==
    { json_dumps(<<[key |-> STATUS, value |-> JsonStr(ERROR)],
                   [key |-> DOCUMENT_ID, value |-> JsonStr(<<100, 49>>)]>>),
      json_dumps(<<[key |-> STATUS, value |-> JsonStr(SUCCESS)],
                   [key |-> DOCUMENT_ID, value |-> JsonStr(<<100, 57>>)]>>),
      json_dumps(<<[key |-> STATUS, value |-> JsonStr(SUCCESS)]>>),
      <<DIGIT_0 + 5>>,
      <<LBRACE, QUOTE>> \o STATUS \o <<QUOTE, COLON>>,
      <<255>> }

\* What the worker leaves alone of the chunker's invocations and direct calls.
CoreUnchanged ==
    /\ UNCHANGED <<pc, cd_text, cd_document_id, cd_client_id, cd_sections, section_pos,
                   cd_all_chunks, cd_chunk_index, cd_result, parse_calls, split_calls,
                   returned>>
    /\ ChunkerUnchanged /\ InferenceUnchanged /\ DirectUnchanged
    /\ ConnectUnchanged

\* The row of the table chunks for a chunk (db.py lines 92-100: the columns
\* chunk_id to token_count; the embedding is left out).  updated_at tells a
\* row as inserted ("default") from a row that DO UPDATE has rewritten
\* ("NOW()", line 87).
ChunkRow(chunk) ==
    [chunk_id |-> chunk.chunk_id,
     document_id |-> chunk.document_id,
     client_id |-> chunk.client_id,
     chunk_index |-> chunk.chunk_index,
     text |-> chunk.text,
     heading |-> chunk.heading,
     heading_level |-> chunk.heading_level,
     chunk_type |-> chunk.chunk_type,
     token_count |-> chunk.token_count,
     updated_at |-> "default"]

\* UpsertRow that inserts a row whatever the table holds: what C27 must tell
\* from UpsertRow.
InsertRow(table, chunk) == Append(table, ChunkRow(chunk))

\* INSERT INTO chunks ... ON CONFLICT (chunk_id) DO UPDATE SET ... for one
\* row: the row with the chunk_id is updated in its place (chunk_id,
\* document_id, client_id and chunk_index stay), else the row is inserted.
UpsertRow(table, chunk) ==
    IF \E k \in 1..Len(table) : table[k].chunk_id = chunk.chunk_id
    THEN [k \in 1..Len(table) |->
             IF table[k].chunk_id = chunk.chunk_id
             THEN [table[k] EXCEPT !.text = chunk.text,
                                   !.heading = chunk.heading,
                                   !.heading_level = chunk.heading_level,
                                   !.chunk_type = chunk.chunk_type,
                                   !.token_count = chunk.token_count,
                                   !.updated_at = "NOW()"]
             ELSE table[k]]
    ELSE Append(table, ChunkRow(chunk))

RECURSIVE save_chunks(_, _)
\* Database.save_chunks: the rows of the chunks, upserted in their order.
save_chunks(table, chunks) ==
    IF chunks = <<>> THEN table
    ELSE save_chunks(UpsertRow(table, Head(chunks)), Tail(chunks))

\* Database.mark_document_chunked: metadata || {"chunked": true,
\* "chunk_count": chunk_count} for the row of the document, if there is one.
mark_document_chunked(docs, document_id, chunk_count) ==
    IF document_id \in DOMAIN docs /\ docs[document_id].present
    THEN [docs EXCEPT ![document_id].chunked = TRUE,
                      ![document_id].chunk_count = chunk_count]
    ELSE docs

\* Database.get_document_fulltext: the row of the document, or None.
get_document_fulltext(docs, document_id) ==
    IF document_id \in DOMAIN docs /\ docs[document_id].present
    THEN docs[document_id]
    ELSE NoDocument

\* The event published to the chunking result queue.
Event(status, document_id, error, chunks_count) ==
    [status |-> status, document_id |-> document_id, error |-> error,
     chunks_count |-> chunks_count]

\* RabbitMQHandler.publish_result: the event is in the queue, or the broker
\* is not reachable and the call raises.
publish_result(st, event, fault) ==
    IF fault = "publish" THEN [st EXCEPT !.exc = "AMQPError"]
    ELSE [st EXCEPT !.events = Append(@, event)]

\* ChunkerWorker._publish_error
_publish_error(st, document_id, error, fault) ==
    publish_result(st, Event("error", document_id, error, 0), fault)

\* What can fail while a message is processed: nothing, the query of
\* get_document_fulltext, the transaction of save_chunks, the transaction of
\* mark_document_chunked, or the broker (every publish_result raises).
Faults == {"none", "fetch", "save", "mark", "publish"}

\* main.py lines 129-151, with the chunks that chunk_document returned: an
\* empty list publishes an error event; else the chunks are saved, the
\* document is marked and the success event is published.  st.exc names
\* the exception raised, if any ("" for none); a transaction that raises is
\* rolled back.
SaveAndPublish(st, chunks, document_id, fault) ==
    IF chunks = <<>>
    THEN _publish_error(st, document_id, "No chunks created", fault)
    ELSE IF fault = "save" THEN [st EXCEPT !.exc = "OperationalError"]
    ELSE IF fault = "mark"
    THEN [st EXCEPT !.chunks_table = save_chunks(@, chunks), !.exc = "OperationalError"]
    ELSE publish_result(
             [st EXCEPT !.chunks_table = save_chunks(@, chunks),
                        !.documents = mark_document_chunked(@, document_id, Len(chunks))],
             Event("success", document_id, "", Len(chunks)), fault)

\* main.py lines 122-151: chunk_document on the fulltext, then the above.
ChunkAndSave(st, fulltext, document_id, client_id, fault) ==
    SaveAndPublish(st, chunk_document(fulltext, document_id, client_id), document_id, fault)

\* main.py lines 106-151, after the branch of an empty fulltext has
\* published its error (warned).  Lines 106-120 are displaced text in the
\* source (the statements that generate the embeddings, which read chunks
\* before line 123 assigns it, and the return of the branch of line 103 in
\* a comment), so both readings of each are taken: after the error for an
\* empty fulltext the method returns or goes on (after_empty), and the
\* displaced statements raise or are passed (block).
AfterEmptyCheck(warned, fulltext, document_id, client_id, fault, after_empty, block) ==
    IF warned.exc # "" THEN warned
    ELSE IF fulltext = <<>> /\ after_empty = "return" THEN warned
    ELSE IF block = "raise" THEN [warned EXCEPT !.exc = "UnboundLocalError"]
    ELSE ChunkAndSave(warned, fulltext, document_id, client_id, fault)

\* main.py lines 95-151, with the row doc that get_document_fulltext gave.
WithDocument(st, doc, document_id, msg_client, fault, after_empty, block) ==
    IF ~doc.present
    THEN _publish_error(st, document_id, "Document not found", fault)
    ELSE AfterEmptyCheck(
             IF doc.fulltext = <<>>
             THEN _publish_error(st, document_id, "Empty document text", fault)
             ELSE st,
             doc.fulltext, document_id,
             IF JsonTruthy(msg_client) THEN msg_client.str ELSE doc.client_id,
             fault, after_empty, block)

\* main.py lines 89-151, the body of the try.
TryBody(st, document_id, msg_client, fault, after_empty, block) ==
    IF fault = "fetch" THEN [st EXCEPT !.exc = "OperationalError"]
    ELSE WithDocument(st, get_document_fulltext(st.documents, document_id),
                      document_id, msg_client, fault, after_empty, block)

\* main.py lines 153-155: an exception of the try body is published as an
\* error event, and an exception of that publish_result leaves the method.
ExceptClause(tried, document_id, fault) ==
    IF tried.exc = "" THEN tried
    ELSE _publish_error([tried EXCEPT !.exc = ""], document_id, tried.exc, fault)

\* ChunkerWorker.process_ocr_result: a message without document_id is
\* dropped; else the try body runs, then the except clause.
process_ocr_result(st, message, fault, after_empty, block) ==
    IF ~JsonTruthy(DictGet(message, DOCUMENT_ID)) THEN st
    ELSE ExceptClause(TryBody(st, DictGet(message, DOCUMENT_ID).str,
                              DictGet(message, CLIENT_ID), fault, after_empty, block),
                      DictGet(message, DOCUMENT_ID).str, fault)

\* The calls of channel.basic_ack and channel.basic_nack of one run of the
\* handler, here one call: its method, its requeue argument, and whether
\* the callback was called before it and how it ended.
Settled(method, requeue, callback) ==
    <<[method |-> method, requeue |-> requeue, callback |-> callback]>>

\* rabbitmq_handler.py lines 95-103: the callback returned and the message
\* is acked, or it raised and the message is nacked with requeue.
AfterCallback(processed) ==
    IF processed.exc # ""
    THEN [st |-> [processed EXCEPT !.exc = ""],
          calls |-> Settled("basic_nack", TRUE, "raised")]
    ELSE [st |-> processed, calls |-> Settled("basic_ack", FALSE, "returned")]

\* rabbitmq_handler.py lines 86-103, with the outcome of json.loads(body).
\* A body that json.loads refuses with JSONDecodeError is nacked without
\* requeue; every other exception (of json.loads, of message.get on a value
\* that is no dict, of the callback) is nacked with requeue.
WithLoaded(st, loaded, fault, after_empty, block) ==
    IF loaded.raised = "JSONDecodeError"
    THEN [st |-> st, calls |-> Settled("basic_nack", FALSE, "not called")]
    ELSE IF loaded.raised # "" \/ loaded.value.type # "dict"
    THEN [st |-> st, calls |-> Settled("basic_nack", TRUE, "not called")]
    ELSE IF DictGet(loaded.value, STATUS) # JsonStr(SUCCESS)
    THEN [st |-> st, calls |-> Settled("basic_ack", FALSE, "not called")]
    ELSE AfterCallback(process_ocr_result(st, loaded.value, fault, after_empty, block))

\* RabbitMQHandler.consume_ocr_results.on_message: the state after the
\* handler and the calls that settle the delivery.
on_message(st, body, fault, after_empty, block) ==
    WithLoaded(st, json_loads(body), fault, after_empty, block)

\* The delivery leaves the queue unless a call nacks it with requeue.
Requeued(calls) ==
    \E k \in 1..Len(calls) : calls[k].method = "basic_nack" /\ calls[k].requeue

\* What a run of on_message leaves: the tables, the events it published,
\* its calls, and the queue.
Handled(out) ==
    /\ documents' = out.st.documents
    /\ chunks_table' = out.st.chunks_table
    /\ events' = out.st.events
    /\ settlements' = out.calls
    /\ ocr_queue' = IF Requeued(out.calls) THEN ocr_queue ELSE Tail(ocr_queue)

\* The broker delivers the first message of the queue to on_message.  An
\* acked message and a message nacked without requeue leave the queue, a
\* message nacked with requeue stays and is delivered again.
OnMessage ==
    /\ ocr_queue # <<>>
    /\ delivered < MaxDeliveries
    /\ \E fault \in Faults, after_empty \in {"return", "continue"},
          block \in {"continue", "raise"} :
           Handled(on_message([documents |-> documents, chunks_table |-> chunks_table,
                               events |-> <<>>, exc |-> ""],
                              Head(ocr_queue), fault, after_empty, block))
    /\ delivery' = Head(ocr_queue)
    /\ delivered' = delivered + 1
    /\ CoreUnchanged

\* The recognizer stores the fulltext of a document (INSERT ... ON CONFLICT
\* (document_id) DO UPDATE SET fulltext, metadata, updated_at: the metadata
\* it writes has no "chunked" and no "chunk_count") and publishes its success
\* message, here when the queue is empty.
Recognize ==
    /\ ocr_queue = <<>>
    /\ delivered < MaxDeliveries
    /\ \E d \in DocumentIds, text \in Fulltexts :
           /\ documents' = [documents EXCEPT ![d] =
                  [present |-> TRUE, client_id |-> <<CHAR_c, 108>>, fulltext |-> text,
                   chunked |-> FALSE, chunk_count |-> None]]
           /\ ocr_queue' = <<OcrSuccess(d, <<CHAR_c, 108>>)>>
    /\ UNCHANGED <<delivered, delivery, settlements, chunks_table, events>>
    /\ CoreUnchanged

\* Another body comes to the OCR result queue, here when the queue is empty.
PublishOther ==
    /\ ocr_queue = <<>>
    /\ delivered < MaxDeliveries
    /\ \E body \in OtherBodies : ocr_queue' = <<body>>
    /\ UNCHANGED <<delivered, delivery, settlements, documents, chunks_table, events>>
    /\ CoreUnchanged

\* ChunkerWorker.__init__: SemanticChunker() takes Config.CHUNK_SIZE and
\* Config.CHUNK_OVERLAP, which the environment variables CHUNK_SIZE (here 1,
\* or unset) and CHUNK_OVERLAP (unset) give.
InitWorker ==
    /\ init_args = [chunk_size |-> None, chunk_overlap |-> None]
    /\ chunk_size \in {1, CHUNK_SIZE}
    /\ chunk_overlap = CHUNK_OVERLAP
    /\ tokenizer \in BOOLEAN
    /\ NoInvocation
    /\ NoInference
    /\ NoDirectCall
    /\ NoWorker

NextWorker ==
    \/ Recognize
    \/ PublishOther
    \/ OnMessage

SpecWorker == InitWorker /\ [][NextWorker]_vars

(***************************************************************************)
(* RabbitMQHandler._connect (rabbitmq_handler.py lines 19-56; the method   *)
(* of the recognizer's handler is the same but for the queues it declares).*)
(***************************************************************************)
max_retries == 10
retry_delay == 5

\* How one pass of the try body can end: it reaches the return; or
\* pika.BlockingConnection raises AMQPConnectionError; or the connection is
\* made and lost in connection.channel(), or in queue_declare or basic_qos
\* (AMQPConnectionError as well); or the broker closes the channel on a
\* queue_declare, which raises ChannelClosedByBroker, no AMQPConnectionError.
Outcomes == {"success", "no connection", "lost at channel", "lost at declare",
             "channel closed"}

ConnectionErrors == {"no connection", "lost at channel", "lost at declare"}

\* The condition of line 52 that holds on to every attempt, the last too:
\* what C29 must tell from RetryAfter.
RetryAfterAny(a) == a < max_retries

\* Line 52: the attempt is not the last of range(max_retries).
RetryAfter(a) == a < max_retries - 1

\* self.connection after a pass of the try body (line 38).
ConnectionAfter(outcome, before) ==
    CASE outcome = "no connection" -> before
      [] outcome \in {"lost at channel", "lost at declare"} -> "closed"
      [] OTHER -> "open"

\* self.channel after a pass of the try body (line 39).
ChannelAfter(outcome, before) ==
    CASE outcome \in {"no connection", "lost at channel"} -> before
      [] outcome \in {"lost at declare", "channel closed"} -> "closed"
      [] OTHER -> "open"

\* What _connect leaves alone.
OutsideConnect ==
    /\ UNCHANGED <<pc, cd_text, cd_document_id, cd_client_id, cd_sections, section_pos,
                   cd_all_chunks, cd_chunk_index, cd_result, parse_calls, split_calls,
                   returned>>
    /\ ChunkerUnchanged /\ InferenceUnchanged /\ DirectUnchanged
    /\ DeliveriesUnchanged

\* One pass of the loop body: the try body, and the except clause when it
\* raised AMQPConnectionError.
Attempt ==
    /\ connect_pc = "try"
    /\ \E outcome \in Outcomes :
           /\ connection' = ConnectionAfter(outcome, connection)
           /\ channel' = ChannelAfter(outcome, channel)
           /\ connect_pc' =
                  IF outcome = "success" THEN "returned"
                  ELSE IF outcome \in ConnectionErrors /\ RetryAfter(attempt) THEN "sleep"
                  ELSE "raised"
           /\ connect_exc' =
                  IF outcome = "channel closed" THEN "ChannelClosedByBroker"
                  ELSE IF outcome \in ConnectionErrors /\ ~RetryAfter(attempt)
                  THEN "AMQPConnectionError"
                  ELSE ""
    /\ attempts' = attempts + 1
    /\ UNCHANGED <<attempt, slept>>
    /\ OutsideConnect

\* time.sleep(retry_delay) returns and the for loop takes the next value of
\* range(max_retries); when there is none the method returns.
Sleep ==
    /\ connect_pc = "sleep"
    /\ slept' = slept + retry_delay
    /\ attempt' = attempt + 1
    /\ connect_pc' = IF attempt + 1 < max_retries THEN "try" ELSE "returned"
    /\ UNCHANGED <<connection, channel, attempts, connect_exc>>
    /\ OutsideConnect

\* _connect is called by __init__ (connection and channel are None) or by
\* _ensure_connection (the connection is None or closed).
InitConnect ==
    /\ init_args = [chunk_size |-> None, chunk_overlap |-> None]
    /\ chunk_size = CHUNK_SIZE
    /\ chunk_overlap = CHUNK_OVERLAP
    /\ tokenizer = FALSE
    /\ NoInvocation
    /\ NoInference
    /\ NoDirectCall
    /\ NoDeliveries
    /\ connect_pc = "try"
    /\ attempt = 0
    /\ connection \in {"None", "closed"}
    /\ channel \in {"None", "open", "closed"}
    /\ attempts = 0
    /\ slept = 0
    /\ connect_exc = ""

NextConnect ==
    \/ Attempt
    \/ Sleep

SpecConnect == InitConnect /\ [][NextConnect]_vars

(***************************************************************************)
(* The properties.                                                         *)
(***************************************************************************)
\* Every character of s is whitespace (s may be empty).
AllWhitespace(s) == \A i \in 1..Len(s) : IsSpace(s[i])

\* Invocation t has returned.
Done(t) == pc[t] = "done"

\* C1: the list chunk_document returns has chunk_index i - 1 at position i:
\* the indices are 0..n-1 without gap or repeat, also across sections.
C1_ContiguousIndices ==
    \A t \in Threads :
        Done(t) => \A i \in 1..Len(cd_result[t]) : cd_result[t][i].chunk_index = i - 1

\* C1's case: a returned list of three chunks or more, whose last chunk comes
\* from another section than the chunk before it.
C1_Witness ==
    /\ Done(1)
    /\ Len(cd_sections[1]) >= 2
    /\ Len(cd_result[1]) >= 3
    /\ cd_result[1][Len(cd_result[1])].heading
           # cd_result[1][Len(cd_result[1]) - 1].heading

\* C2: a text with a non-whitespace character gives a non-empty list.
C2_NonEmptyResult ==
    \A t \in Threads :
        (Done(t) /\ ~AllWhitespace(cd_text[t])) => cd_result[t] # <<>>

RECURSIVE IsSubsequence(_, _)
\* The sequence a is b with some of b's elements left out.
IsSubsequence(a, b) ==
    IF a = <<>> THEN TRUE
    ELSE IF b = <<>> THEN FALSE
    ELSE IF Head(a) = Head(b) THEN IsSubsequence(Tail(a), Tail(b))
    ELSE IsSubsequence(a, Tail(b))

RECURSIVE ChunkWords(_)
\* The words of the chunks' texts, in the order of the chunks.
ChunkWords(chunks) ==
    IF chunks = <<>> THEN <<>>
    ELSE Words(Head(chunks).text) \o ChunkWords(Tail(chunks))

\* C3: the words of the document are words of the chunks' texts, in their
\* order in the document: the chunks add words (the overlap) and drop none.
C3_NoContentDropped ==
    \A t \in Threads :
        Done(t) => IsSubsequence(Words(cd_text[t]), ChunkWords(cd_result[t]))

\* The sentences of the section's paragraphs that alone exceed chunk_size.
OversizedSentences(section) ==
    LET paragraphs == SplitParagraphs(FullText(section))
        SentencesOf(para) ==
            LET sentences == SplitSentences(Strip(para))
            IN  {Strip(sentences[k]) : k \in 1..Len(sentences)}
        all == UNION {SentencesOf(paragraphs[k]) : k \in 1..Len(paragraphs)}
    IN  {sentence \in all : count_tokens(sentence) > chunk_size}

\* C4: the text of a chunk counts at most chunk_size tokens, unless the chunk
\* is one single sentence that alone exceeds chunk_size.
C4_TokenBudget ==
    \A t \in Threads :
        Done(t) =>
            \A i \in 1..Len(cd_result[t]) :
                \/ count_tokens(cd_result[t][i].text) <= chunk_size
                \/ \E k \in 1..Len(cd_sections[t]) :
                       cd_result[t][i].text \in OversizedSentences(cd_sections[t][k])

\* The pattern with its letters in lower case.
LowerPattern(pattern) == [k \in 1..Len(pattern) |-> Lower(pattern[k])]

\* The pattern matches s whatever the case of the letters of either.
MatchesIgnoringCase(pattern, s) == ReSearch(LowerPattern(pattern), Lower(s))

\* The heading and the text as infer_chunk_type combines them, in their own case.
HeadingAndText ==
    (IF Truthy(heading_arg) THEN heading_arg ELSE <<>>) \o <<SP>> \o text_arg

\* The labels one of whose patterns matches the heading and text.
MatchingLabels ==
    {n \in 1..Len(CHUNK_TYPE_PATTERNS) :
        \E k \in 1..Len(CHUNK_TYPE_PATTERNS[n][2]) :
            MatchesIgnoringCase(CHUNK_TYPE_PATTERNS[n][2][k], HeadingAndText)}

\* C5: infer_chunk_type returns the first label, in the declared order, one
\* of whose patterns matches the heading and text, and "general" exactly
\* when no pattern of any label matches.
C5_FirstMatchingLabel ==
    inferred # "" =>
        inferred = IF MatchingLabels = {} THEN "general"
                   ELSE CHUNK_TYPE_PATTERNS[
                            CHOOSE n \in MatchingLabels :
                                \A m \in MatchingLabels : n <= m][1]

\* C6: a pattern whose keyword is in the heading and text in any letter case
\* is found by the search infer_chunk_type makes, so that such a text is not
\* "general".
C6_CaseInsensitive ==
    inferred # "" =>
        /\ \A n \in 1..Len(CHUNK_TYPE_PATTERNS) :
               \A k \in 1..Len(CHUNK_TYPE_PATTERNS[n][2]) :
                   MatchesIgnoringCase(CHUNK_TYPE_PATTERNS[n][2][k], HeadingAndText)
                       => ReSearch(CHUNK_TYPE_PATTERNS[n][2][k],
                                   Combined(heading_arg, text_arg))
        /\ MatchingLabels # {} => inferred # "general"

\* Two records of calls have the same arguments.
SameCall(r1, r2) ==
    /\ r1.text = r2.text
    /\ r1.document_id = r2.document_id
    /\ r1.client_id = r2.client_id

\* The call invocation t is making or has made, with the value it returned.
CallOf(t) ==
    [text |-> cd_text[t], document_id |-> cd_document_id[t],
     client_id |-> cd_client_id[t], result |-> cd_result[t]]

\* C7: a call of chunk_document leaves chunk_size, chunk_overlap and the
\* tokenizer as they were, and returns what every earlier call with the same
\* arguments returned, whatever calls were made before or in between.
C7_PureFunction ==
    [][/\ chunk_size' = chunk_size
       /\ chunk_overlap' = chunk_overlap
       /\ tokenizer' = tokenizer
       /\ \A t \in Threads :
              pc'[t] = "done" =>
                  \A r \in returned' :
                      SameCall(r, CallOf(t)') => r.result = cd_result'[t]]_vars

\* C7's case: a call has returned a chunk list, after an earlier call with
\* the same arguments and a call with another text have returned theirs.
C7_Witness ==
    \E t \in Threads :
        /\ Done(t)
        /\ cd_result[t] # <<>>
        /\ \E r \in returned : SameCall(r, CallOf(t))
        /\ \E r \in returned : r.text # cd_text[t] /\ r.result # <<>>

\* C8: under every interleaving with the other invocations, an invocation
\* returns the list that chunk_document, run alone, returns for its arguments.
C8_SameAsAlone ==
    \A t \in Threads :
        Done(t) =>
            cd_result[t] = chunk_document(cd_text[t], cd_document_id[t], cd_client_id[t])

\* C8's case: invocation 1 has returned three chunks or more of one document
\* while invocation 2 is in the loop over the sections of another document.
C8_Witness ==
    /\ Done(1)
    /\ Len(cd_result[1]) >= 3
    /\ pc[2] = "loop"
    /\ section_pos[2] >= 1
    /\ cd_document_id[2] # cd_document_id[1]

\* The number that the decimal digits s write; -1 when s is not decimal digits.
RECURSIVE DecimalValue(_)
DecimalValue(s) ==
    IF s = <<>> \/ \E i \in 1..Len(s) : s[i] < DIGIT_0 \/ s[i] > DIGIT_0 + 9
    THEN -1
    ELSE IF Len(s) = 1 THEN s[1] - DIGIT_0
    ELSE 10 * DecimalValue(SubSeq(s, 1, Len(s) - 1)) + (s[Len(s)] - DIGIT_0)

\* The chunk_id reads "c_", then the document_id, then "_", then the decimal
\* digits of the chunk_index.
WellFormedId(chunk, doc) ==
    LET id == chunk.chunk_id
        n == Len(doc)
    IN  /\ Len(id) >= n + 4
        /\ SubSeq(id, 1, 2) = <<CHAR_c, UNDERSCORE>>
        /\ SubSeq(id, 3, n + 2) = doc
        /\ id[n + 3] = UNDERSCORE
        /\ DecimalValue(Drop(id, n + 4)) = chunk.chunk_index

\* C9: every returned chunk carries the document_id and client_id of the
\* call, its chunk_id is "c_<document_id>_<chunk_index>", and no two chunks
\* of the list share a chunk_id.
C9_ChunkIds ==
    \A t \in Threads :
        Done(t) =>
            /\ \A i \in 1..Len(cd_result[t]) :
                   /\ cd_result[t][i].document_id = cd_document_id[t]
                   /\ cd_result[t][i].client_id = cd_client_id[t]
                   /\ WellFormedId(cd_result[t][i], cd_document_id[t])
            /\ \A i, j \in 1..Len(cd_result[t]) :
                   i # j => cd_result[t][i].chunk_id # cd_result[t][j].chunk_id

\* C9's case: a returned list of two chunks or more.
C9_Witness == Done(1) /\ Len(cd_result[1]) >= 2

\* C10: for a text that is empty or all whitespace chunk_document returns the
\* empty list, and has called neither parse_headings nor
\* split_section_into_chunks.
C10_EmptyDocument ==
    \A t \in Threads :
        (Done(t) /\ AllWhitespace(cd_text[t])) =>
            /\ cd_result[t] = <<>>
            /\ parse_calls[t] = 0
            /\ split_calls[t] = 0

\* C10's case: a call with a text of whitespace only has returned.
C10_Witness == Done(1) /\ cd_text[1] # <<>> /\ AllWhitespace(cd_text[1])

\* The lines of a text, as parse_headings splits it.
LinesOf(text) == SplitOn(text, NL)

\* A line of the text is a heading line.
HasHeadingLine(text) ==
    \E i \in 1..Len(LinesOf(text)) : HeadingMatch(LinesOf(text)[i]).matched

\* Every chunk of the list has no heading and the heading level 0.
NoHeadingChunks(chunks) ==
    \A i \in 1..Len(chunks) :
        chunks[i].heading = NoneStr /\ chunks[i].heading_level = 0

\* The sections are one section without heading whose content is content.
OneSectionHolding(sections, content) ==
    /\ Len(sections) = 1
    /\ sections[1].heading = NoneStr
    /\ sections[1].heading_level = 0
    /\ sections[1].content = content

\* C11 as stated: for a document without heading line the parser returns one
\* section with heading None, heading_level 0 and the entire document as its
\* content, and every chunk of the document has heading None and
\* heading_level 0.
C11_ContentIsDocument ==
    \A t \in Threads :
        (parse_calls[t] = 1 /\ ~HasHeadingLine(cd_text[t])) =>
            /\ OneSectionHolding(cd_sections[t], cd_text[t])
            /\ Done(t) => NoHeadingChunks(cd_result[t])

\* C11 as amended: for a document without heading line the parser returns one
\* section with heading None, heading_level 0 and, as its content, the
\* document without its leading and trailing whitespace; every chunk of the
\* document has heading None and heading_level 0.
C11_ContentIsStrippedDocument ==
    \A t \in Threads :
        (parse_calls[t] = 1 /\ ~HasHeadingLine(cd_text[t])) =>
            /\ OneSectionHolding(cd_sections[t], Strip(cd_text[t]))
            /\ Done(t) => NoHeadingChunks(cd_result[t])

\* C11's case: a document without heading line that ends or starts with
\* whitespace has returned two chunks or more.
C11_Witness ==
    /\ Done(1)
    /\ parse_calls[1] = 1
    /\ ~HasHeadingLine(cd_text[1])
    /\ cd_text[1] # Strip(cd_text[1])
    /\ Len(cd_result[1]) >= 2

\* The 1-based number of the heading line that opens the part of the text
\* line i is in: 0 for the lines before the first heading line.
Owner(lines, i) ==
    LET before == {j \in 1..i : HeadingMatch(lines[j]).matched}
    IN  IF before = {} THEN 0 ELSE CHOOSE j \in before : \A k \in before : k <= j

\* The sections that the part of the text opened by heading line j became
\* (j = 0: the part before the first heading line).
SectionsOfPart(sections, j) ==
    {k \in 1..Len(sections) :
        IF j = 0 THEN sections[k].heading = NoneStr
        ELSE sections[k].heading # NoneStr /\ sections[k].start_line = j - 1}

RECURSIVE NonBlank(_)
\* The lines that are not blank, each without its leading and trailing whitespace.
NonBlank(lines) ==
    IF lines = <<>> THEN <<>>
    ELSE IF Strip(Head(lines)) = <<>> THEN NonBlank(Tail(lines))
    ELSE <<Strip(Head(lines))>> \o NonBlank(Tail(lines))

RECURSIVE BodyLines(_, _, _)
\* The lines after line j up to the next heading line.
BodyLines(lines, j, acc) ==
    IF j >= Len(lines) \/ HeadingMatch(lines[j + 1]).matched THEN acc
    ELSE BodyLines(lines, j + 1, Append(acc, lines[j + 1]))

\* C12: the sections partition the lines of the text: every heading line
\* opens exactly one section, every other non-blank line is in the content of
\* exactly one section, the section of the heading line it follows, and the
\* content of a section holds the non-blank lines of its part of the text and
\* no other, in their order.
C12_LinesPartitioned ==
    direct_pc = "returned" =>
        LET lines == LinesOf(ph_text) IN
        /\ \A i \in 1..Len(lines) :
               IF HeadingMatch(lines[i]).matched
               THEN Cardinality(SectionsOfPart(ph_result, i)) = 1
               ELSE Strip(lines[i]) # <<>> =>
                        Cardinality(SectionsOfPart(ph_result, Owner(lines, i))) = 1
        /\ \A k \in 1..Len(ph_result) :
               NonBlank(LinesOf(ph_result[k].content))
                   = NonBlank(BodyLines(lines,
                                        IF ph_result[k].heading = NoneStr THEN 0
                                        ELSE ph_result[k].start_line + 1,
                                        <<>>))

\* C13: every section parse_headings returns has a content that is not empty
\* or a heading that is not None.
C13_NoEmptySection ==
    direct_pc = "returned" =>
        \A k \in 1..Len(ph_result) :
            ph_result[k].content # <<>> \/ ph_result[k].heading # NoneStr

\* The line is 1 to 6 '#', then one whitespace character or more, then a text
\* that is not empty.
HeadingShape(line) ==
    \E h \in 1..6 : \E w \in 1..Len(line) :
        /\ h + w < Len(line)
        /\ \A i \in 1..h : line[i] = HASH
        /\ \A i \in (h + 1)..(h + w) : IsSpace(line[i])

\* C14: a line opens a section exactly when it is 1 to 6 '#', whitespace and
\* a text that is not empty; the section of a heading line has the number of
\* the line's '#' as its heading_level and a heading that is trimmed and not
\* empty; a section has heading_level 0 exactly when its heading is None.
C14_HeadingLines ==
    direct_pc = "returned" =>
        LET lines == LinesOf(ph_text) IN
        /\ \A i \in 1..Len(lines) :
               HeadingShape(lines[i]) <=> SectionsOfPart(ph_result, i) # {}
        /\ \A k \in 1..Len(ph_result) :
               /\ ph_result[k].heading_level = 0 <=> ph_result[k].heading = NoneStr
               /\ ph_result[k].heading # NoneStr =>
                      /\ ph_result[k].heading_level \in 1..6
                      /\ ph_result[k].heading_level
                             = LeadingHashes(lines[ph_result[k].start_line + 1])
                      /\ ph_result[k].heading # <<>>
                      /\ ph_result[k].heading = Strip(ph_result[k].heading)

\* split_section_into_chunks called on its own has returned.
SplitReturned == direct_pc = "returned"

\* C15: split_section_into_chunks returns the chunks with the chunk_index
\* start_index, start_index + 1, ... in their order and, as next_index,
\* start_index plus the number of the chunks; for a section without heading
\* whose content is blank it returns no chunk and start_index.
C15_NextIndex ==
    SplitReturned =>
        /\ ss_result.next_index = ss_start_index + Len(ss_result.chunks)
        /\ \A i \in 1..Len(ss_result.chunks) :
               ss_result.chunks[i].chunk_index = ss_start_index + i - 1
        /\ (~Truthy(ss_section.heading) /\ AllWhitespace(ss_section.content)) =>
               /\ ss_result.chunks = <<>>
               /\ ss_result.next_index = ss_start_index

\* C15's case: a call with a start_index above 0 has returned three chunks or more.
C15_Witness ==
    /\ SplitReturned
    /\ ss_start_index > 0
    /\ Len(ss_result.chunks) >= 3

\* C16: a section whose full_text is not empty and counts at most chunk_size
\* tokens gives exactly one chunk, which has the full_text as its text, that
\* count as its token_count and start_index as its chunk_index, and
\* next_index is start_index + 1; the section of "# Title\n\nShort body."
\* under the default configuration gives the one chunk
\* "# Title\n\nShort body." with heading_level 1 and chunk_type "general".
C16_SingleChunk ==
    SplitReturned =>
        /\ (FullText(ss_section) # <<>>
                /\ count_tokens(FullText(ss_section)) <= chunk_size) =>
               /\ Len(ss_result.chunks) = 1
               /\ ss_result.chunks[1].text = FullText(ss_section)
               /\ ss_result.chunks[1].token_count = count_tokens(FullText(ss_section))
               /\ ss_result.chunks[1].chunk_index = ss_start_index
               /\ ss_result.next_index = ss_start_index + 1
        /\ (ss_section = TitleSection /\ chunk_size = CHUNK_SIZE
                /\ chunk_overlap = CHUNK_OVERLAP) =>
               /\ Len(ss_result.chunks) = 1
               /\ ss_result.chunks[1].text
                      = <<HASH, SP, 84, 105, 116, 108, 101, NL, NL,
                          83, 104, 111, 114, 116, SP, 98, 111, 100, 121, DOT>>
               /\ ss_result.chunks[1].heading_level = 1
               /\ ss_result.chunks[1].chunk_type = "general"

\* C16's case: a section of two paragraphs whose full_text counts exactly
\* chunk_size tokens has returned.
C16_Witness ==
    /\ SplitReturned
    /\ Len(SplitParagraphs(FullText(ss_section))) >= 2
    /\ count_tokens(FullText(ss_section)) = chunk_size

RECURSIVE TokenSum(_)
\* The sum of the token counts of the words.
TokenSum(words) ==
    IF words = <<>> THEN 0 ELSE count_tokens(Head(words)) + TokenSum(Tail(words))

\* The last n words.
LastWords(words, n) == SubSeq(words, Len(words) - n + 1, Len(words))

\* The paragraphs of the section's full_text that are not blank, trimmed.
ParagraphsOf(section) == NonBlank(SplitParagraphs(FullText(section)))

\* Each paragraph of the section fits the budget alone, so that a chunk after
\* the section's first one starts where a paragraph overflowed the buffer.
AllParagraphsFit(section) ==
    \A j \in 1..Len(ParagraphsOf(section)) :
        count_tokens(ParagraphsOf(section)[j]) <= chunk_size

\* The text is the last n words of the chunk before, joined by blanks and
\* followed by a blank, and then the paragraphs j..l, a blank line between them.
PrefixThenParagraphs(text, before, n, paragraphs, j, l) ==
    text = (IF n = 0 THEN <<>>
            ELSE Join(LastWords(Words(before), n), <<SP>>) \o <<SP>>)
           \o Join(SubSeq(paragraphs, j, l), <<NL, NL>>)

\* C17: when a paragraph that fits overflows the buffer, the buffer is flushed
\* and the text of the next chunk is a run of the last words of the flushed
\* text, in their order, whose token counts sum to chunk_overlap at most,
\* followed by the paragraph (and the paragraphs added after it).
C17_OverlapPrefix ==
    (SplitReturned /\ AllParagraphsFit(ss_section)) =>
        \A k \in 2..Len(ss_result.chunks) :
            LET before == ss_result.chunks[k - 1].text
                paragraphs == ParagraphsOf(ss_section)
            IN  \E n \in 0..Len(Words(before)) :
                    /\ n > 0 => TokenSum(LastWords(Words(before), n)) <= chunk_overlap
                    /\ \E j \in 1..Len(paragraphs) : \E l \in j..Len(paragraphs) :
                           PrefixThenParagraphs(ss_result.chunks[k].text, before,
                                                n, paragraphs, j, l)

\* C17's case: with chunk_overlap 1 a chunk of two words was flushed and the
\* next chunk starts with the last of them only, followed by a paragraph.
C17_Witness ==
    /\ SplitReturned
    /\ AllParagraphsFit(ss_section)
    /\ chunk_overlap = 1
    /\ \E k \in 2..Len(ss_result.chunks) :
           LET before == Words(ss_result.chunks[k - 1].text)
               text == Words(ss_result.chunks[k].text)
           IN  /\ Len(before) = 2
               /\ Len(text) = 2
               /\ text[1] = before[2]
               /\ text[1] # text[2]

\* C18: a chunk_overlap argument of 0 or less is the chunker's chunk_overlap,
\* and then no chunk starts with words of the chunk before it: the words of
\* the chunks, in their order, are the words of the section's full_text.
C18_NoOverlapWhenNotPositive ==
    (init_args.chunk_overlap # None /\ init_args.chunk_overlap <= 0) =>
        /\ chunk_overlap = init_args.chunk_overlap
        /\ SplitReturned =>
               ChunkWords(ss_result.chunks) = Words(FullText(ss_section))

\* Every sentence of the invocation's sections that alone exceeds chunk_size
\* is the text of a returned chunk.
OversizedEmitted(t) ==
    \A k \in 1..Len(cd_sections[t]) :
        \A sentence \in OversizedSentences(cd_sections[t][k]) :
            \E i \in 1..Len(cd_result[t]) : cd_result[t][i].text = sentence

\* C19: every call of chunk_document returns, and a sentence that alone
\* exceeds chunk_size is then a chunk of the returned list.
C19_Terminates ==
    /\ <>Done(1)
    /\ [](Done(1) => OversizedEmitted(1))

\* C19's case: a call on a text with a sentence that alone exceeds chunk_size
\* has returned.
C19_Witness ==
    /\ Done(1)
    /\ \E k \in 1..Len(cd_sections[1]) : OversizedSentences(cd_sections[1][k]) # {}
    /\ OversizedEmitted(1)

\* s starts with x.
StartsWith(s, x) == Len(x) <= Len(s) /\ SubSeq(s, 1, Len(x)) = x

\* s ends with x.
EndsWith(s, x) == Len(x) <= Len(s) /\ SubSeq(s, Len(s) - Len(x) + 1, Len(s)) = x

\* x occurs in s.
Occurs(x, s) == \E i \in 1..(Len(s) - Len(x) + 1) : SubSeq(s, i, i + Len(x) - 1) = x

\* The sentences of the paragraph that are not blank, trimmed.
SentencesOf(para) == NonBlank(SplitSentences(para))

\* The paragraph alone exceeds chunk_size.
Oversized(para) == count_tokens(para) > chunk_size

\* C21: for a paragraph that alone exceeds chunk_size, the buffer of the
\* paragraphs before it is flushed as a chunk of its own and the paragraph's
\* first sentence starts the next chunk, so that within a chunk a blank line
\* is followed by a whole paragraph that fits and never by sentences of an
\* oversized paragraph; a sentence that alone exceeds chunk_size is a chunk
\* of its own, and another chunk holds it only as words of the overlap that
\* the chunk starts with.
C21_OversizedParagraphFlushed ==
    SplitReturned =>
        LET paragraphs == ParagraphsOf(ss_section)
            chunks == ss_result.chunks
        IN  /\ \A j \in 1..Len(paragraphs) :
                   Oversized(paragraphs[j]) =>
                       \E k \in 1..Len(chunks) :
                           /\ StartsWith(chunks[k].text, SentencesOf(paragraphs[j])[1])
                           /\ j > 1 =>
                                  /\ k > 1
                                  /\ EndsWith(chunks[k - 1].text, paragraphs[j - 1])
                                         \/ /\ Oversized(paragraphs[j - 1])
                                            /\ LET before == SentencesOf(paragraphs[j - 1])
                                               IN  EndsWith(chunks[k - 1].text,
                                                            before[Len(before)])
            /\ \A k \in 1..Len(chunks) :
                   LET pieces == SplitParagraphs(chunks[k].text)
                   IN  \A i \in 2..Len(pieces) :
                           \E j \in 1..Len(paragraphs) :
                               /\ pieces[i] = paragraphs[j]
                               /\ ~Oversized(paragraphs[j])
            /\ \A sentence \in OversizedSentences(ss_section) :
                   /\ \E k \in 1..Len(chunks) : chunks[k].text = sentence
                   /\ \A k \in 1..Len(chunks) :
                          Occurs(sentence, chunks[k].text) =>
                              \/ chunks[k].text = sentence
                              \/ /\ k > 1
                                 /\ LET prefix == _get_overlap_text(chunks[k - 1].text)
                                    IN  /\ StartsWith(chunks[k].text, prefix)
                                        /\ ~Occurs(sentence,
                                                   Drop(chunks[k].text, Len(prefix) + 1))

\* C21's case: a paragraph that counts no token is in the buffer when a
\* paragraph that alone exceeds chunk_size comes, whose first sentence would
\* have fitted the buffer; and a sentence that alone exceeds chunk_size is
\* followed by a paragraph.
C21_Witness ==
    /\ SplitReturned
    /\ LET paragraphs == ParagraphsOf(ss_section)
       IN  /\ \E j \in 2..Len(paragraphs) :
                  /\ Oversized(paragraphs[j])
                  /\ ~Oversized(paragraphs[j - 1])
                  /\ count_tokens(paragraphs[j - 1])
                         + count_tokens(SentencesOf(paragraphs[j])[1]) <= chunk_size
           /\ Len(ss_result.chunks) >= 3

\* C22: every chunk of a section has the section's heading and heading_level,
\* and its chunk_type is infer_chunk_type of the section's heading and the
\* chunk's own text, on the single-chunk path as on the other paths.
C22_TypeOfOwnText ==
    SplitReturned =>
        \A k \in 1..Len(ss_result.chunks) :
            /\ ss_result.chunks[k].heading = ss_section.heading
            /\ ss_result.chunks[k].heading_level = ss_section.heading_level
            /\ ss_result.chunks[k].chunk_type
                   = infer_chunk_type(ss_section.heading, ss_result.chunks[k].text)

\* The chunk may be a chunk of the section: it has the section's heading and
\* heading_level, and the words of its text are words of the section's
\* full_text.
ChunkOfSection(chunk, section) ==
    /\ chunk.heading = section.heading
    /\ chunk.heading_level = section.heading_level
    /\ \A i \in 1..Len(Words(chunk.text)) :
           \E j \in 1..Len(Words(FullText(section))) :
               Words(chunk.text)[i] = Words(FullText(section))[j]

RECURSIVE InSectionOrder(_, _)
\* The chunks are chunks of the sections, those of an earlier section before
\* those of a later one.
InSectionOrder(chunks, sections) ==
    IF chunks = <<>> THEN TRUE
    ELSE IF sections = <<>> THEN FALSE
    ELSE \/ /\ ChunkOfSection(Head(chunks), Head(sections))
            /\ InSectionOrder(Tail(chunks), sections)
         \/ InSectionOrder(chunks, Tail(sections))

\* Invocation t has its sections: it is in the loop or has left it.
Parsed(t) == pc[t] = "loop" \/ (pc[t] = "done" /\ parse_calls[t] > 0)

\* C23: the sections are in the order of the document, their start_line
\* strictly increasing, and the returned list has the chunks of an earlier
\* section before the chunks of a later one.
C23_DocumentOrder ==
    /\ Parsed(1) =>
           \A k \in 2..Len(cd_sections[1]) :
               cd_sections[1][k - 1].start_line < cd_sections[1][k].start_line
    /\ (Done(1) /\ parse_calls[1] > 0) =>
           InSectionOrder(cd_result[1], cd_sections[1])

\* C23's case: a text before the first heading and a section with a heading
\* have both given chunks, three or more in all.
C23_Witness ==
    /\ Done(1)
    /\ Len(cd_sections[1]) >= 2
    /\ Len(cd_result[1]) >= 3
    /\ cd_result[1][1].heading = NoneStr
    /\ cd_result[1][Len(cd_result[1])].heading # NoneStr

\* The section without heading that holds the content.
HeadlessSection(content) ==
    [heading |-> NoneStr, heading_level |-> 0, content |-> content, start_line |-> 0]

\* The parser returns no section for the text of invocation t, which is not
\* blank.
ParserGaveNothing(t) == ~IsBlank(cd_text[t]) /\ parse_headings(cd_text[t]) = <<>>

\* C24: when parse_headings returns an empty list for a text that is not
\* blank, chunk_document chunks the one section without heading, of level 0,
\* whose content is the whole text: the returned chunks are those of that
\* section from index 0 on, which are the chunks of the section that the
\* parser returns for a document without heading line, its stripped text.
C24_FallbackSection ==
    ParserGaveNothing(1) =>
        /\ Parsed(1) => cd_sections[1] = <<HeadlessSection(cd_text[1])>>
        /\ (Done(1) /\ parse_calls[1] > 0) =>
               /\ cd_result[1]
                      = split_section_into_chunks(HeadlessSection(cd_text[1]),
                            cd_document_id[1], cd_client_id[1], 0).chunks
               /\ cd_result[1]
                      = split_section_into_chunks(HeadlessSection(Strip(cd_text[1])),
                            cd_document_id[1], cd_client_id[1], 0).chunks
               /\ cd_result[1] # <<>>
               /\ \A i \in 1..Len(cd_result[1]) :
                      /\ cd_result[1][i].heading = NoneStr
                      /\ cd_result[1][i].heading_level = 0

\* C24's case: a call has returned two chunks or more for a text that is not
\* blank and for which the parser returns no section.
C24_Witness ==
    /\ Done(1)
    /\ ParserGaveNothing(1)
    /\ Len(cd_result[1]) >= 2

\* C25: the token_count of every chunk is count_tokens of the chunk's text,
\* with the tokenizer and with the len(text) // 4 counter.
C25_TokenCountOfText ==
    SplitReturned =>
        \A k \in 1..Len(ss_result.chunks) :
            ss_result.chunks[k].token_count = count_tokens(ss_result.chunks[k].text)


\* ---------------------------------------------------------------------
\* C26  The chunk consumer settles every delivery exactly once, and by the
\* kind of message: a body that is not valid JSON is nacked without requeue
\* and without the callback; a message whose status is not "success" is
\* acked without the callback; a message whose callback returned is acked;
\* a message whose callback raised is nacked with requeue.
NotValidJson(body) == json_loads(body).raised # ""

NotSuccess(body) ==
    LET loaded == json_loads(body)
    IN  /\ loaded.raised = ""
        /\ loaded.value.type = "dict"
        /\ DictGet(loaded.value, STATUS) # JsonStr(SUCCESS)

C26_SettledOnceByKind ==
    delivered > 0 =>
        /\ Len(settlements) = 1
        /\ LET call == settlements[1]
           IN  /\ NotValidJson(delivery) =>
                      call = Settled("basic_nack", FALSE, "not called")[1]
               /\ NotSuccess(delivery) =>
                      call = Settled("basic_ack", FALSE, "not called")[1]
               /\ call.callback = "returned" => call.method = "basic_ack"
               /\ call.callback = "raised" =>
                      call.method = "basic_nack" /\ call.requeue


\* ---------------------------------------------------------------------
\* C27  Saving the chunk list of a document again, with the same text and
\* the same configuration, leaves the stored chunks as they are: the same
\* rows, with the same text, heading, chunk_type and token_count.
\* What C27 compares of a row.
RowView(row) ==
    [chunk_id |-> row.chunk_id, text |-> row.text, heading |-> row.heading,
     chunk_type |-> row.chunk_type, token_count |-> row.token_count]

StoredView(table) == [k \in 1..Len(table) |-> RowView(table[k])]

\* The chunk list the worker makes of the stored fulltext of a document.
ChunksOfDocument(d) ==
    chunk_document(documents[d].fulltext, d, documents[d].client_id)

\* The chunk list of the document has been saved before: each of its chunks
\* has its row.
AlreadySaved(d) ==
    /\ documents[d].present
    /\ LET chunks == ChunksOfDocument(d)
       IN  /\ chunks # <<>>
           /\ \A i \in 1..Len(chunks) :
                  \E k \in 1..Len(chunks_table) :
                      RowView(chunks_table[k]) = RowView(ChunkRow(chunks[i]))

C27_ResaveChangesNothing ==
    [][ \A d \in DocumentIds :
            ( /\ delivered' = delivered + 1
              /\ delivery' = OcrSuccess(d, documents[d].client_id)
              /\ chunks_table # <<>>
              /\ AlreadySaved(d) )
            => StoredView(chunks_table') = StoredView(chunks_table) ]_vars

\* The three chunks of a document have been saved, saved again and the
\* message acked: every row has been rewritten by DO UPDATE.
C27_Witness ==
    \E d \in DocumentIds :
        /\ AlreadySaved(d)
        /\ Len(ChunksOfDocument(d)) = 3
        /\ Len(chunks_table) = 3
        /\ \A k \in 1..3 : chunks_table[k].updated_at = "NOW()"
        /\ delivered >= 2
        /\ settlements = Settled("basic_ack", FALSE, "returned")


\* ---------------------------------------------------------------------
\* C28  Once the worker has processed a document (mark_document_chunked has
\* marked it), the rows stored for its document_id are the chunks of the
\* chunk_document result of its fulltext, no more and no fewer, and the
\* recorded chunk_count is their number.
RowsOfDocument(d) ==
    { RowView(chunks_table[k]) :
          k \in { j \in 1..Len(chunks_table) : chunks_table[j].document_id = d } }

C28_StoredIsLatest ==
    \A d \in DocumentIds :
        documents[d].chunked =>
            LET chunks == ChunksOfDocument(d)
            IN  /\ RowsOfDocument(d) =
                       { RowView(ChunkRow(chunks[i])) : i \in 1..Len(chunks) }
                /\ documents[d].chunk_count = Cardinality(RowsOfDocument(d))


\* ---------------------------------------------------------------------
\* C29  _connect makes at most max_retries (10) attempts.  It returns only
\* from an attempt that succeeded, the first that did, with connection and
\* channel set; it has slept retry_delay seconds after every failed attempt
\* before the next; and AMQPConnectionError leaves it only when the 10th
\* attempt in a row has failed, with no sleep and no attempt after it.
C29_BoundedRetries ==
    /\ attempts <= max_retries
    /\ connect_pc \in {"try", "sleep", "returned", "raised"}
    /\ connect_pc = "try" => attempts = attempt /\ slept = retry_delay * attempt
    /\ connect_pc = "sleep" => attempts = attempt + 1 /\ slept = retry_delay * attempt
    /\ connect_pc = "returned" =>
           /\ connection = "open" /\ channel = "open"
           /\ connect_exc = ""
           /\ attempts = attempt + 1
           /\ slept = retry_delay * attempt
    /\ (connect_pc = "raised" /\ connect_exc = "AMQPConnectionError") =>
           /\ attempts = max_retries
           /\ attempt = max_retries - 1
           /\ slept = retry_delay * (max_retries - 1)

\* The 10th attempt has failed and the error has left _connect.
C29_Witness ==
    /\ connect_pc = "raised"
    /\ connect_exc = "AMQPConnectionError"
    /\ attempts = max_retries

=============================================================================
